---- MODULE Spec2Model ----
(***************************************************************************)
(* State-machine model of the AR lab experiments:                          *)
(*   - HandTrackingExperiment (04-surface-detection/index.tsx, second      *)
(*     half) and BodyTrackingExperiment (07-body-tracking/index.tsx): the  *)
(*     camera session, the requestAnimationFrame loop, the video-time      *)
(*     dedup and the pinch stroke recorder;                                *)
(*   - SurfaceDetectionExperiment (04) and WorldTrackingExperiment (05):   *)
(*     the hit-test reticle, the XR select listeners and the registry of   *)
(*     placed objects / anchors.                                           *)
(* Landmark coordinates are in thousandths of the normalized frame, world  *)
(* coordinates in units of 0.05.                                           *)
(***************************************************************************)
EXTENDS Integers, Sequences, FiniteSets, TLC

VARIABLES
    experiment,        \* the experiment component mounted on the route
    \* ---- tracking experiments (hand / body) ----
    mounted,           \* component mounted: videoRef.current / canvasRef.current are set
    landmarker,        \* handLandmarkerRef / poseLandmarkerRef: "init" | "ready" | "failed" | "closed"
    isLoading,         \* useState(true)
    isRunning,         \* useState(false)
    error,             \* useState(null): TRUE when an error message is set
    drawMode,          \* useState(true)
    currentColor,      \* useState(COLORS[0])
    animationRef,      \* animationRef.current: 0 = null, else the loop whose request id it holds
    rafQueue,          \* pending requestAnimationFrame callbacks, named by the startTracking call of their loop
    calls,             \* the startTracking calls made so far: position and acquired stream
    closures,          \* the processFrame closure of every call that can still run it: captured state
    srcObject,         \* the video element's srcObject: 0 = null, else the call whose stream it is
    onloadedmetadata,  \* video.onloadedmetadata: 0 = unset, else the call whose resolver it holds
    videoTime,         \* video.currentTime
    frame,             \* what detectForVideo returns for the current video frame
    delivered,         \* number of video frames the camera streams have delivered
    lastVideoTimeRef,  \* lastVideoTimeRef.current
    detectCount,       \* detectForVideo calls the landmarker received since video.currentTime last changed
    strokesRef,        \* strokesRef.current
    currentStrokeRef,  \* currentStrokeRef.current: << >> = null, <<stroke>> otherwise
    wasPinchingRef,    \* wasPinchingRef.current
    handCount,         \* useState(0): handCount / poseCount
    detectedGestures,  \* useState(new Map()): detectedGestures / detectedPoses
    jointAngles,       \* useState(null) of the body experiment: << >> = null, <<angles>> otherwise
    \* ---- placement experiments (surface / world) ----
    isInAR,            \* useState(false): the AR scene with its reticle is mounted
    reticleVisible,    \* reticleRef.current.visible
    lastPosition,      \* lastPosition.current
    lastRotation,      \* lastRotation.current
    selectedType,      \* selectedObject (surface) / selectedType (world)
    selectedColor,     \* selectedColor (world)
    noteText,          \* noteText (world)
    handlePlaceId,     \* identity of the handlePlace callback of the latest render
    listeners,         \* 'select' listeners registered on the XR session, in registration order
    registry,          \* placedObjects (surface) / anchors (world)
    now,               \* Date.now()
    selectEvents,      \* number of select events the XR session has dispatched
    hitTest,           \* what the latest XR frame handed to the hit-test callback: << >> before the first frame
    \* ---- calls of the classifiers (detectGesture / detectPose) on their own ----
    argLandmarks,      \* the landmarks argument: << >> when no call is made
    argIsRightHand,    \* the isRightHand argument of detectGesture
    returned           \* the labels the calls made so far returned, in call order

compVars   == <<mounted, landmarker>>
uiVars     == <<isLoading, isRunning, error>>
drawVars   == <<drawMode, currentColor>>
loopVars   == <<animationRef, rafQueue>>
camVars    == <<calls, closures, srcObject, onloadedmetadata>>
videoVars  == <<videoTime, frame, delivered>>
dedupVars  == <<lastVideoTimeRef, detectCount>>
strokeVars == <<strokesRef, currentStrokeRef, wasPinchingRef>>
pubVars    == <<handCount, detectedGestures, jointAngles>>

trackVars == <<compVars, uiVars, drawVars, loopVars, camVars, videoVars, dedupVars,
               strokeVars, pubVars>>

reticleVars == <<reticleVisible, lastPosition, lastRotation>>
selVars     == <<selectedType, selectedColor, noteText, handlePlaceId>>

placeVars == <<isInAR, reticleVars, selVars, listeners, registry, now, selectEvents, hitTest>>

callVars == <<argLandmarks, argIsRightHand, returned>>

vars == <<experiment, trackVars, placeVars, callVars>>

-----------------------------------------------------------------------------
(* Bounds of the model *)

\* number of startTracking clicks in one behaviour
MaxStarts == 2
\* number of video frames the camera delivers in one behaviour
MaxFrames == 3
\* number of select events the XR session dispatches in one behaviour
MaxSelects == 2
\* number of times the selection controls re-create handlePlace in one behaviour
MaxHandlers == 2
\* number of milliseconds Date.now() advances in one behaviour
MaxNow == 1
\* number of times a classifier is called on the same landmarks in one behaviour
MaxCalls == 2

-----------------------------------------------------------------------------
(* Hand landmarks and gesture classification *)

THUMB_MCP == 2
THUMB_IP == 3
THUMB_TIP == 4
INDEX_MCP == 5
INDEX_PIP == 6
INDEX_TIP == 8
MIDDLE_MCP == 9
MIDDLE_PIP == 10
MIDDLE_TIP == 12
RING_MCP == 13
RING_PIP == 14
RING_TIP == 16
PINKY_MCP == 17
PINKY_PIP == 18
PINKY_TIP == 20

\* 0.05 of the normalized frame, in thousandths
PinchThreshold == 50

\* canvas size = video size (the ideal capture size)
VideoWidth == 1280
VideoHeight == 720

COLORS == <<"#06b6d4", "#8b5cf6">>

Pt(x, y) == [x |-> x, y |-> y]

\* distance(p1, p2) < d, both sides squared (d >= 0)
DistanceLess(p1, p2, d) ==
    LET dx == p1.x - p2.x
        dy == p1.y - p2.y
    IN  dx * dx + dy * dy < d * d

isFingerExtended(landmarks, tipIdx, pipIdx, mcpIdx) ==
    /\ landmarks[tipIdx].y < landmarks[pipIdx].y
    /\ landmarks[pipIdx].y < landmarks[mcpIdx].y

isThumbExtended(landmarks, isRightHand) ==
    IF isRightHand
    THEN /\ landmarks[THUMB_TIP].x < landmarks[THUMB_IP].x
         /\ landmarks[THUMB_IP].x < landmarks[THUMB_MCP].x
    ELSE /\ landmarks[THUMB_TIP].x > landmarks[THUMB_IP].x
         /\ landmarks[THUMB_IP].x > landmarks[THUMB_MCP].x

\* detectGesture with the pinch rule evaluated last instead of first
detectGesturePinchLast(landmarks, isRightHand) ==
    LET thumbExtended  == isThumbExtended(landmarks, isRightHand)
        indexExtended  == isFingerExtended(landmarks, INDEX_TIP, INDEX_PIP, INDEX_MCP)
        middleExtended == isFingerExtended(landmarks, MIDDLE_TIP, MIDDLE_PIP, MIDDLE_MCP)
        ringExtended   == isFingerExtended(landmarks, RING_TIP, RING_PIP, RING_MCP)
        pinkyExtended  == isFingerExtended(landmarks, PINKY_TIP, PINKY_PIP, PINKY_MCP)
        isPinching     == DistanceLess(landmarks[THUMB_TIP], landmarks[INDEX_TIP], PinchThreshold)
    IN  IF thumbExtended /\ ~indexExtended /\ ~middleExtended /\ ~ringExtended /\ ~pinkyExtended
             THEN "thumbs_up"
        ELSE IF thumbExtended /\ indexExtended /\ middleExtended /\ ringExtended /\ pinkyExtended
             THEN "open_palm"
        ELSE IF ~thumbExtended /\ ~indexExtended /\ ~middleExtended /\ ~ringExtended /\ ~pinkyExtended
             THEN "fist"
        ELSE IF ~thumbExtended /\ indexExtended /\ ~middleExtended /\ ~ringExtended /\ ~pinkyExtended
             THEN "pointing"
        ELSE IF ~thumbExtended /\ indexExtended /\ middleExtended /\ ~ringExtended /\ ~pinkyExtended
             THEN "peace"
        ELSE IF isPinching THEN "pinch"
        ELSE "unknown"

\* detectGesture reporting a label only from the second call on (a debounced classifier)
detectGestureDebounced(landmarks, isRightHand) ==
    LET thumbExtended  == isThumbExtended(landmarks, isRightHand)
        indexExtended  == isFingerExtended(landmarks, INDEX_TIP, INDEX_PIP, INDEX_MCP)
        middleExtended == isFingerExtended(landmarks, MIDDLE_TIP, MIDDLE_PIP, MIDDLE_MCP)
        ringExtended   == isFingerExtended(landmarks, RING_TIP, RING_PIP, RING_MCP)
        pinkyExtended  == isFingerExtended(landmarks, PINKY_TIP, PINKY_PIP, PINKY_MCP)
        isPinching     == DistanceLess(landmarks[THUMB_TIP], landmarks[INDEX_TIP], PinchThreshold)
    IN  IF returned = << >> THEN "unknown"
        ELSE IF isPinching THEN "pinch"
        ELSE IF thumbExtended /\ ~indexExtended /\ ~middleExtended /\ ~ringExtended /\ ~pinkyExtended
             THEN "thumbs_up"
        ELSE IF thumbExtended /\ indexExtended /\ middleExtended /\ ringExtended /\ pinkyExtended
             THEN "open_palm"
        ELSE IF ~thumbExtended /\ ~indexExtended /\ ~middleExtended /\ ~ringExtended /\ ~pinkyExtended
             THEN "fist"
        ELSE IF ~thumbExtended /\ indexExtended /\ ~middleExtended /\ ~ringExtended /\ ~pinkyExtended
             THEN "pointing"
        ELSE IF ~thumbExtended /\ indexExtended /\ middleExtended /\ ~ringExtended /\ ~pinkyExtended
             THEN "peace"
        ELSE "unknown"

\* detectGesture with a thumbs_up rule that looks at the thumb only
detectGestureThumbOnly(landmarks, isRightHand) ==
    LET thumbExtended  == isThumbExtended(landmarks, isRightHand)
        indexExtended  == isFingerExtended(landmarks, INDEX_TIP, INDEX_PIP, INDEX_MCP)
        middleExtended == isFingerExtended(landmarks, MIDDLE_TIP, MIDDLE_PIP, MIDDLE_MCP)
        ringExtended   == isFingerExtended(landmarks, RING_TIP, RING_PIP, RING_MCP)
        pinkyExtended  == isFingerExtended(landmarks, PINKY_TIP, PINKY_PIP, PINKY_MCP)
        isPinching     == DistanceLess(landmarks[THUMB_TIP], landmarks[INDEX_TIP], PinchThreshold)
    IN  IF isPinching THEN "pinch"
        ELSE IF thumbExtended
             THEN "thumbs_up"
        ELSE IF thumbExtended /\ indexExtended /\ middleExtended /\ ringExtended /\ pinkyExtended
             THEN "open_palm"
        ELSE IF ~thumbExtended /\ ~indexExtended /\ ~middleExtended /\ ~ringExtended /\ ~pinkyExtended
             THEN "fist"
        ELSE IF ~thumbExtended /\ indexExtended /\ ~middleExtended /\ ~ringExtended /\ ~pinkyExtended
             THEN "pointing"
        ELSE IF ~thumbExtended /\ indexExtended /\ middleExtended /\ ~ringExtended /\ ~pinkyExtended
             THEN "peace"
        ELSE "unknown"

\* detectGesture with a peace rule that does not look at the ring finger
detectGestureLoosePeace(landmarks, isRightHand) ==
    LET thumbExtended  == isThumbExtended(landmarks, isRightHand)
        indexExtended  == isFingerExtended(landmarks, INDEX_TIP, INDEX_PIP, INDEX_MCP)
        middleExtended == isFingerExtended(landmarks, MIDDLE_TIP, MIDDLE_PIP, MIDDLE_MCP)
        ringExtended   == isFingerExtended(landmarks, RING_TIP, RING_PIP, RING_MCP)
        pinkyExtended  == isFingerExtended(landmarks, PINKY_TIP, PINKY_PIP, PINKY_MCP)
        isPinching     == DistanceLess(landmarks[THUMB_TIP], landmarks[INDEX_TIP], PinchThreshold)
    IN  IF isPinching THEN "pinch"
        ELSE IF thumbExtended /\ ~indexExtended /\ ~middleExtended /\ ~ringExtended /\ ~pinkyExtended
             THEN "thumbs_up"
        ELSE IF thumbExtended /\ indexExtended /\ middleExtended /\ ringExtended /\ pinkyExtended
             THEN "open_palm"
        ELSE IF ~thumbExtended /\ ~indexExtended /\ ~middleExtended /\ ~ringExtended /\ ~pinkyExtended
             THEN "fist"
        ELSE IF ~thumbExtended /\ indexExtended /\ ~middleExtended /\ ~ringExtended /\ ~pinkyExtended
             THEN "pointing"
        ELSE IF ~thumbExtended /\ indexExtended /\ middleExtended /\ ~pinkyExtended
             THEN "peace"
        ELSE "unknown"

detectGesture(landmarks, isRightHand) ==
    LET thumbExtended  == isThumbExtended(landmarks, isRightHand)
        indexExtended  == isFingerExtended(landmarks, INDEX_TIP, INDEX_PIP, INDEX_MCP)
        middleExtended == isFingerExtended(landmarks, MIDDLE_TIP, MIDDLE_PIP, MIDDLE_MCP)
        ringExtended   == isFingerExtended(landmarks, RING_TIP, RING_PIP, RING_MCP)
        pinkyExtended  == isFingerExtended(landmarks, PINKY_TIP, PINKY_PIP, PINKY_MCP)
        isPinching     == DistanceLess(landmarks[THUMB_TIP], landmarks[INDEX_TIP], PinchThreshold)
    IN  IF isPinching THEN "pinch"
        ELSE IF thumbExtended /\ ~indexExtended /\ ~middleExtended /\ ~ringExtended /\ ~pinkyExtended
             THEN "thumbs_up"
        ELSE IF thumbExtended /\ indexExtended /\ middleExtended /\ ringExtended /\ pinkyExtended
             THEN "open_palm"
        ELSE IF ~thumbExtended /\ ~indexExtended /\ ~middleExtended /\ ~ringExtended /\ ~pinkyExtended
             THEN "fist"
        ELSE IF ~thumbExtended /\ indexExtended /\ ~middleExtended /\ ~ringExtended /\ ~pinkyExtended
             THEN "pointing"
        ELSE IF ~thumbExtended /\ indexExtended /\ middleExtended /\ ~ringExtended /\ ~pinkyExtended
             THEN "peace"
        ELSE "unknown"

\* An upright open right hand; every finger chain rises on screen, the thumb points left.
OpenHandLandmarks ==
    [i \in 0..20 |->
        CASE i = 0  -> Pt(500, 900)
          [] i = 1  -> Pt(450, 800)
          [] i = 2  -> Pt(400, 750)
          [] i = 3  -> Pt(350, 700)
          [] i = 4  -> Pt(300, 650)
          [] i \in 5..8   -> Pt(450, 600 - (i - 5) * 75)
          [] i \in 9..12  -> Pt(500, 600 - (i - 9) * 75)
          [] i \in 13..16 -> Pt(550, 600 - (i - 13) * 75)
          [] OTHER        -> Pt(600, 600 - (i - 17) * 75)]

\* The detections the landmarker can return: the same hand with the thumb tip moved
\* next to the index tip (two different places), and the open hand.
HandSample(h) ==
    CASE h = "pinchA" -> [handedness |-> "Right",
                          landmarks  |-> [OpenHandLandmarks EXCEPT ![THUMB_TIP] = Pt(425, 375)]]
      [] h = "pinchB" -> [handedness |-> "Left",
                          landmarks  |-> [OpenHandLandmarks EXCEPT ![THUMB_TIP] = Pt(450, 400)]]
      [] OTHER        -> [handedness |-> "Right", landmarks |-> OpenHandLandmarks]

\* results.landmarks for one video frame: at most numHands = 2 hands
HandFrames == { << >>, <<"open">>, <<"pinchA">>, <<"pinchA", "pinchB">>, <<"pinchA", "open">> }

-----------------------------------------------------------------------------
(* Body landmarks and pose classification (07-body-tracking) *)

LEFT_SHOULDER == 11
RIGHT_SHOULDER == 12
LEFT_ELBOW == 13
RIGHT_ELBOW == 14
LEFT_WRIST == 15
RIGHT_WRIST == 16
LEFT_HIP == 23
RIGHT_HIP == 24
LEFT_KNEE == 25
RIGHT_KNEE == 26
LEFT_ANKLE == 27
RIGHT_ANKLE == 28

\* Math.atan2(dy, dx) in thousandths of a degree, rounded to the nearest, for coordinate
\* differences that are multiples of 50 thousandths: row dy / 50, column dx / 50, both
\* from -6 to 6
Atan2Table ==
    <<
        <<-135000, -129806, -123690, -116565, -108435, -99462, -90000, -80538, -71565, -63435, -56310, -50194, -45000>>,
        <<-140194, -135000, -128660, -120964, -111801, -101310, -90000, -78690, -68199, -59036, -51340, -45000, -39806>>,
        <<-146310, -141340, -135000, -126870, -116565, -104036, -90000, -75964, -63435, -53130, -45000, -38660, -33690>>,
        <<-153435, -149036, -143130, -135000, -123690, -108435, -90000, -71565, -56310, -45000, -36870, -30964, -26565>>,
        <<-161565, -158199, -153435, -146310, -135000, -116565, -90000, -63435, -45000, -33690, -26565, -21801, -18435>>,
        <<-170538, -168690, -165964, -161565, -153435, -135000, -90000, -45000, -26565, -18435, -14036, -11310, -9462>>,
        <<180000, 180000, 180000, 180000, 180000, 180000, 0, 0, 0, 0, 0, 0, 0>>,
        <<170538, 168690, 165964, 161565, 153435, 135000, 90000, 45000, 26565, 18435, 14036, 11310, 9462>>,
        <<161565, 158199, 153435, 146310, 135000, 116565, 90000, 63435, 45000, 33690, 26565, 21801, 18435>>,
        <<153435, 149036, 143130, 135000, 123690, 108435, 90000, 71565, 56310, 45000, 36870, 30964, 26565>>,
        <<146310, 141340, 135000, 126870, 116565, 104036, 90000, 75964, 63435, 53130, 45000, 38660, 33690>>,
        <<140194, 135000, 128660, 120964, 111801, 101310, 90000, 78690, 68199, 59036, 51340, 45000, 39806>>,
        <<135000, 129806, 123690, 116565, 108435, 99462, 90000, 80538, 71565, 63435, 56310, 50194, 45000>>
    >>

\* Math.atan2 for the table's differences and, rounded in the same way, for the two
\* directions that make 70 and 110 degrees with the x axis
Atan2(dy, dx) ==
    IF dy = 272 /\ dx = 99 THEN 70000
    ELSE IF dy = 272 /\ dx = -99 THEN 110000
    ELSE Atan2Table[(dy \div 50) + 7][(dx \div 50) + 7]

\* Math.abs left out: the number itself
Signed(n) == n

Abs(n) == IF n < 0 THEN -n ELSE n

\* the angle at vertex b, in thousandths of a degree
calculateAngle(a, b, c) ==
    LET angle == Abs(Atan2(c.y - b.y, c.x - b.x) - Atan2(a.y - b.y, a.x - b.x))
    IN  IF angle > 180000 THEN 360000 - angle ELSE angle

\* isVisible accepting a visibility of exactly 0.5
isVisibleFromHalf(landmark) ==
    (IF landmark.visibility = << >> THEN 0 ELSE landmark.visibility[1]) >= 500

\* (landmark.visibility ?? 0) > 0.5; visibility is << >> when undefined
isVisible(landmark) ==
    (IF landmark.visibility = << >> THEN 0 ELSE landmark.visibility[1]) > 500

\* Math.round of an angle, in whole degrees
Round(angle) == (angle + 500) \div 1000

\* twice (shoulderCenter.x - hipCenter.x)
TorsoOffset(landmarks) ==
    (landmarks[LEFT_SHOULDER].x + landmarks[RIGHT_SHOULDER].x)
        - (landmarks[LEFT_HIP].x + landmarks[RIGHT_HIP].x)

\* squared distance of the two shoulders
ShoulderSpan2(landmarks) ==
    (landmarks[LEFT_SHOULDER].x - landmarks[RIGHT_SHOULDER].x)
        * (landmarks[LEFT_SHOULDER].x - landmarks[RIGHT_SHOULDER].x)
    + (landmarks[LEFT_SHOULDER].y - landmarks[RIGHT_SHOULDER].y)
        * (landmarks[LEFT_SHOULDER].y - landmarks[RIGHT_SHOULDER].y)

\* detectPose with the leaning rule evaluated before the sitting rule
detectPoseLeaningFirst(landmarks) ==
    LET leftShoulder  == landmarks[LEFT_SHOULDER]
        rightShoulder == landmarks[RIGHT_SHOULDER]
        leftElbow     == landmarks[LEFT_ELBOW]
        rightElbow    == landmarks[RIGHT_ELBOW]
        leftWrist     == landmarks[LEFT_WRIST]
        rightWrist    == landmarks[RIGHT_WRIST]
        leftHip       == landmarks[LEFT_HIP]
        rightHip      == landmarks[RIGHT_HIP]
        leftKnee      == landmarks[LEFT_KNEE]
        rightKnee     == landmarks[RIGHT_KNEE]
        upperBodyVisible == isVisible(leftShoulder) /\ isVisible(rightShoulder)
                            /\ isVisible(leftHip) /\ isVisible(rightHip)
        leftArmAngle       == calculateAngle(leftShoulder, leftElbow, leftWrist)
        rightArmAngle      == calculateAngle(rightShoulder, rightElbow, rightWrist)
        leftShoulderAngle  == calculateAngle(leftHip, leftShoulder, leftElbow)
        rightShoulderAngle == calculateAngle(rightHip, rightShoulder, rightElbow)
        leftKneeAngle  == IF isVisible(leftKnee)
                          THEN calculateAngle(leftHip, leftKnee, landmarks[LEFT_ANKLE])
                          ELSE 180000
        rightKneeAngle == IF isVisible(rightKnee)
                          THEN calculateAngle(rightHip, rightKnee, landmarks[RIGHT_ANKLE])
                          ELSE 180000
        \* torsoTilt > 0.3 and torsoTilt < 0.2, with torsoTilt = |offset / 2| / span
        tiltOver30  == 25 * TorsoOffset(landmarks) * TorsoOffset(landmarks)
                          > 9 * ShoulderSpan2(landmarks)
        tiltUnder20 == 25 * TorsoOffset(landmarks) * TorsoOffset(landmarks)
                          < 4 * ShoulderSpan2(landmarks)
    IN  IF ~upperBodyVisible THEN "unknown"
        ELSE IF /\ leftWrist.y < leftShoulder.y - 100
                /\ rightWrist.y < rightShoulder.y - 100
                /\ leftShoulderAngle > 150000 /\ rightShoulderAngle > 150000
        THEN "arms_up"
        ELSE IF /\ leftShoulderAngle > 70000 /\ leftShoulderAngle < 110000
                /\ rightShoulderAngle > 70000 /\ rightShoulderAngle < 110000
                /\ leftArmAngle > 150000 /\ rightArmAngle > 150000
                /\ Abs(leftWrist.y - leftShoulder.y) < 150
                /\ Abs(rightWrist.y - rightShoulder.y) < 150
        THEN "t_pose"
        ELSE IF /\ DistanceLess(leftWrist, leftHip, 150)
                /\ DistanceLess(rightWrist, rightHip, 150)
                /\ leftArmAngle < 120000 /\ rightArmAngle < 120000
        THEN "hands_on_hips"
        ELSE IF tiltOver30
        THEN "leaning"
        ELSE IF leftKneeAngle < 120000 /\ rightKneeAngle < 120000
        THEN "sitting"
        ELSE IF leftKneeAngle > 150000 /\ rightKneeAngle > 150000 /\ tiltUnder20
        THEN "standing"
        ELSE "unknown"

\* detectPose measuring the knee angle of a knee that is not visible too
detectPoseKneesMeasured(landmarks) ==
    LET leftShoulder  == landmarks[LEFT_SHOULDER]
        rightShoulder == landmarks[RIGHT_SHOULDER]
        leftElbow     == landmarks[LEFT_ELBOW]
        rightElbow    == landmarks[RIGHT_ELBOW]
        leftWrist     == landmarks[LEFT_WRIST]
        rightWrist    == landmarks[RIGHT_WRIST]
        leftHip       == landmarks[LEFT_HIP]
        rightHip      == landmarks[RIGHT_HIP]
        leftKnee      == landmarks[LEFT_KNEE]
        rightKnee     == landmarks[RIGHT_KNEE]
        upperBodyVisible == isVisible(leftShoulder) /\ isVisible(rightShoulder)
                            /\ isVisible(leftHip) /\ isVisible(rightHip)
        leftArmAngle       == calculateAngle(leftShoulder, leftElbow, leftWrist)
        rightArmAngle      == calculateAngle(rightShoulder, rightElbow, rightWrist)
        leftShoulderAngle  == calculateAngle(leftHip, leftShoulder, leftElbow)
        rightShoulderAngle == calculateAngle(rightHip, rightShoulder, rightElbow)
        leftKneeAngle  == calculateAngle(leftHip, leftKnee, landmarks[LEFT_ANKLE])
        rightKneeAngle == calculateAngle(rightHip, rightKnee, landmarks[RIGHT_ANKLE])
        \* torsoTilt > 0.3 and torsoTilt < 0.2, with torsoTilt = |offset / 2| / span
        tiltOver30  == 25 * TorsoOffset(landmarks) * TorsoOffset(landmarks)
                          > 9 * ShoulderSpan2(landmarks)
        tiltUnder20 == 25 * TorsoOffset(landmarks) * TorsoOffset(landmarks)
                          < 4 * ShoulderSpan2(landmarks)
    IN  IF ~upperBodyVisible THEN "unknown"
        ELSE IF /\ leftWrist.y < leftShoulder.y - 100
                /\ rightWrist.y < rightShoulder.y - 100
                /\ leftShoulderAngle > 150000 /\ rightShoulderAngle > 150000
        THEN "arms_up"
        ELSE IF /\ leftShoulderAngle > 70000 /\ leftShoulderAngle < 110000
                /\ rightShoulderAngle > 70000 /\ rightShoulderAngle < 110000
                /\ leftArmAngle > 150000 /\ rightArmAngle > 150000
                /\ Abs(leftWrist.y - leftShoulder.y) < 150
                /\ Abs(rightWrist.y - rightShoulder.y) < 150
        THEN "t_pose"
        ELSE IF /\ DistanceLess(leftWrist, leftHip, 150)
                /\ DistanceLess(rightWrist, rightHip, 150)
                /\ leftArmAngle < 120000 /\ rightArmAngle < 120000
        THEN "hands_on_hips"
        ELSE IF leftKneeAngle < 120000 /\ rightKneeAngle < 120000
        THEN "sitting"
        ELSE IF tiltOver30
        THEN "leaning"
        ELSE IF leftKneeAngle > 150000 /\ rightKneeAngle > 150000 /\ tiltUnder20
        THEN "standing"
        ELSE "unknown"

\* detectPose with an arms_up rule that asks for shoulder angles over 160 degrees
detectPoseArmsUpOver160(landmarks) ==
    LET leftShoulder  == landmarks[LEFT_SHOULDER]
        rightShoulder == landmarks[RIGHT_SHOULDER]
        leftElbow     == landmarks[LEFT_ELBOW]
        rightElbow    == landmarks[RIGHT_ELBOW]
        leftWrist     == landmarks[LEFT_WRIST]
        rightWrist    == landmarks[RIGHT_WRIST]
        leftHip       == landmarks[LEFT_HIP]
        rightHip      == landmarks[RIGHT_HIP]
        leftKnee      == landmarks[LEFT_KNEE]
        rightKnee     == landmarks[RIGHT_KNEE]
        upperBodyVisible == isVisible(leftShoulder) /\ isVisible(rightShoulder)
                            /\ isVisible(leftHip) /\ isVisible(rightHip)
        leftArmAngle       == calculateAngle(leftShoulder, leftElbow, leftWrist)
        rightArmAngle      == calculateAngle(rightShoulder, rightElbow, rightWrist)
        leftShoulderAngle  == calculateAngle(leftHip, leftShoulder, leftElbow)
        rightShoulderAngle == calculateAngle(rightHip, rightShoulder, rightElbow)
        leftKneeAngle  == IF isVisible(leftKnee)
                          THEN calculateAngle(leftHip, leftKnee, landmarks[LEFT_ANKLE])
                          ELSE 180000
        rightKneeAngle == IF isVisible(rightKnee)
                          THEN calculateAngle(rightHip, rightKnee, landmarks[RIGHT_ANKLE])
                          ELSE 180000
        \* torsoTilt > 0.3 and torsoTilt < 0.2, with torsoTilt = |offset / 2| / span
        tiltOver30  == 25 * TorsoOffset(landmarks) * TorsoOffset(landmarks)
                          > 9 * ShoulderSpan2(landmarks)
        tiltUnder20 == 25 * TorsoOffset(landmarks) * TorsoOffset(landmarks)
                          < 4 * ShoulderSpan2(landmarks)
    IN  IF ~upperBodyVisible THEN "unknown"
        ELSE IF /\ leftWrist.y < leftShoulder.y - 100
                /\ rightWrist.y < rightShoulder.y - 100
                /\ leftShoulderAngle > 160000 /\ rightShoulderAngle > 160000
        THEN "arms_up"
        ELSE IF /\ leftShoulderAngle > 70000 /\ leftShoulderAngle < 110000
                /\ rightShoulderAngle > 70000 /\ rightShoulderAngle < 110000
                /\ leftArmAngle > 150000 /\ rightArmAngle > 150000
                /\ Abs(leftWrist.y - leftShoulder.y) < 150
                /\ Abs(rightWrist.y - rightShoulder.y) < 150
        THEN "t_pose"
        ELSE IF /\ DistanceLess(leftWrist, leftHip, 150)
                /\ DistanceLess(rightWrist, rightHip, 150)
                /\ leftArmAngle < 120000 /\ rightArmAngle < 120000
        THEN "hands_on_hips"
        ELSE IF leftKneeAngle < 120000 /\ rightKneeAngle < 120000
        THEN "sitting"
        ELSE IF tiltOver30
        THEN "leaning"
        ELSE IF leftKneeAngle > 150000 /\ rightKneeAngle > 150000 /\ tiltUnder20
        THEN "standing"
        ELSE "unknown"

detectPose(landmarks) ==
    LET leftShoulder  == landmarks[LEFT_SHOULDER]
        rightShoulder == landmarks[RIGHT_SHOULDER]
        leftElbow     == landmarks[LEFT_ELBOW]
        rightElbow    == landmarks[RIGHT_ELBOW]
        leftWrist     == landmarks[LEFT_WRIST]
        rightWrist    == landmarks[RIGHT_WRIST]
        leftHip       == landmarks[LEFT_HIP]
        rightHip      == landmarks[RIGHT_HIP]
        leftKnee      == landmarks[LEFT_KNEE]
        rightKnee     == landmarks[RIGHT_KNEE]
        upperBodyVisible == isVisible(leftShoulder) /\ isVisible(rightShoulder)
                            /\ isVisible(leftHip) /\ isVisible(rightHip)
        leftArmAngle       == calculateAngle(leftShoulder, leftElbow, leftWrist)
        rightArmAngle      == calculateAngle(rightShoulder, rightElbow, rightWrist)
        leftShoulderAngle  == calculateAngle(leftHip, leftShoulder, leftElbow)
        rightShoulderAngle == calculateAngle(rightHip, rightShoulder, rightElbow)
        leftKneeAngle  == IF isVisible(leftKnee)
                          THEN calculateAngle(leftHip, leftKnee, landmarks[LEFT_ANKLE])
                          ELSE 180000
        rightKneeAngle == IF isVisible(rightKnee)
                          THEN calculateAngle(rightHip, rightKnee, landmarks[RIGHT_ANKLE])
                          ELSE 180000
        \* torsoTilt > 0.3 and torsoTilt < 0.2, with torsoTilt = |offset / 2| / span
        tiltOver30  == 25 * TorsoOffset(landmarks) * TorsoOffset(landmarks)
                          > 9 * ShoulderSpan2(landmarks)
        tiltUnder20 == 25 * TorsoOffset(landmarks) * TorsoOffset(landmarks)
                          < 4 * ShoulderSpan2(landmarks)
    IN  IF ~upperBodyVisible THEN "unknown"
        ELSE IF /\ leftWrist.y < leftShoulder.y - 100
                /\ rightWrist.y < rightShoulder.y - 100
                /\ leftShoulderAngle > 150000 /\ rightShoulderAngle > 150000
        THEN "arms_up"
        ELSE IF /\ leftShoulderAngle > 70000 /\ leftShoulderAngle < 110000
                /\ rightShoulderAngle > 70000 /\ rightShoulderAngle < 110000
                /\ leftArmAngle > 150000 /\ rightArmAngle > 150000
                /\ Abs(leftWrist.y - leftShoulder.y) < 150
                /\ Abs(rightWrist.y - rightShoulder.y) < 150
        THEN "t_pose"
        ELSE IF /\ DistanceLess(leftWrist, leftHip, 150)
                /\ DistanceLess(rightWrist, rightHip, 150)
                /\ leftArmAngle < 120000 /\ rightArmAngle < 120000
        THEN "hands_on_hips"
        ELSE IF leftKneeAngle < 120000 /\ rightKneeAngle < 120000
        THEN "sitting"
        ELSE IF tiltOver30
        THEN "leaning"
        ELSE IF leftKneeAngle > 150000 /\ rightKneeAngle > 150000 /\ tiltUnder20
        THEN "standing"
        ELSE "unknown"

calculateJointAngles(landmarks) ==
    [leftElbow     |-> Round(calculateAngle(landmarks[LEFT_SHOULDER], landmarks[LEFT_ELBOW],
                                            landmarks[LEFT_WRIST])),
     rightElbow    |-> Round(calculateAngle(landmarks[RIGHT_SHOULDER], landmarks[RIGHT_ELBOW],
                                            landmarks[RIGHT_WRIST])),
     leftKnee      |-> Round(calculateAngle(landmarks[LEFT_HIP], landmarks[LEFT_KNEE],
                                            landmarks[LEFT_ANKLE])),
     rightKnee     |-> Round(calculateAngle(landmarks[RIGHT_HIP], landmarks[RIGHT_KNEE],
                                            landmarks[RIGHT_ANKLE])),
     leftShoulder  |-> Round(calculateAngle(landmarks[LEFT_HIP], landmarks[LEFT_SHOULDER],
                                            landmarks[LEFT_ELBOW])),
     rightShoulder |-> Round(calculateAngle(landmarks[RIGHT_HIP], landmarks[RIGHT_SHOULDER],
                                            landmarks[RIGHT_ELBOW]))]

Lm(x, y, v) == [x |-> x, y |-> y, visibility |-> <<v>>]

\* a person standing upright, arms hanging
StandingLandmarks ==
    [i \in 0..32 |->
        CASE i = LEFT_SHOULDER  -> Lm(600, 300, 900)
          [] i = RIGHT_SHOULDER -> Lm(400, 300, 900)
          [] i = LEFT_ELBOW     -> Lm(600, 450, 900)
          [] i = RIGHT_ELBOW    -> Lm(400, 450, 900)
          [] i = LEFT_WRIST     -> Lm(600, 600, 900)
          [] i = RIGHT_WRIST    -> Lm(400, 600, 900)
          [] i = LEFT_HIP       -> Lm(550, 600, 900)
          [] i = RIGHT_HIP      -> Lm(450, 600, 900)
          [] i = LEFT_KNEE      -> Lm(550, 750, 900)
          [] i = RIGHT_KNEE     -> Lm(450, 750, 900)
          [] i = LEFT_ANKLE     -> Lm(550, 900, 900)
          [] i = RIGHT_ANKLE    -> Lm(450, 900, 900)
          [] OTHER              -> Lm(500, 200, 900)]

\* the people the landmarker can return: standing, arms stretched sideways, and standing
\* with the left hip hidden
PersonSample(p) ==
    CASE p = "tpose"  -> [StandingLandmarks EXCEPT ![LEFT_ELBOW]  = Lm(750, 300, 900),
                                                   ![LEFT_WRIST]  = Lm(900, 300, 900),
                                                   ![RIGHT_ELBOW] = Lm(250, 300, 900),
                                                   ![RIGHT_WRIST] = Lm(100, 300, 900)]
      [] p = "hidden" -> [StandingLandmarks EXCEPT ![LEFT_HIP] = Lm(550, 600, 300)]
      [] OTHER        -> StandingLandmarks

\* results.landmarks for one video frame: at most numPoses = 3 people
PoseFrames == { << >>, <<"standing">>, <<"tpose", "standing">>, <<"hidden">> }

-----------------------------------------------------------------------------
(* The per-frame step of HandTrackingExperiment *)

Last(S) == CHOOSE i \in S : \A j \in S : j <= i

HandGesture(h) == detectGesture(HandSample(h).landmarks, HandSample(h).handedness = "Right")

\* the hands that set isPinching in results.landmarks.forEach
PinchingHands(results, closureDrawMode) ==
    { i \in 1..Len(results) : HandGesture(results[i]) = "pinch" /\ closureDrawMode }

\* midpoint of thumb tip and index tip in canvas pixels
PinchMidpoint(landmarks) ==
    Pt(((landmarks[THUMB_TIP].x + landmarks[INDEX_TIP].x) * VideoWidth) \div 2000,
       ((landmarks[THUMB_TIP].y + landmarks[INDEX_TIP].y) * VideoHeight) \div 2000)

\* pinchPosition after the forEach: every pinching hand overwrites it
PinchPosition(results, closureDrawMode) ==
    PinchMidpoint(HandSample(results[Last(PinchingHands(results, closureDrawMode))]).landmarks)

\* newGestures: a Map keyed by handedness, later hands overwrite earlier ones
NewGestures(results) ==
    [h \in { HandSample(results[i]).handedness : i \in 1..Len(results) } |->
        HandGesture(results[Last({ i \in 1..Len(results) : HandSample(results[i]).handedness = h })])]

\* the drawing block with the push of the continue branch left out
StrokeNotAppended(wasPinching, currentStroke, isPinching, pinchPosition, color) ==
    IF isPinching
    THEN IF ~wasPinching
         THEN << [points |-> <<pinchPosition>>, color |-> color] >>
         ELSE currentStroke
    ELSE IF wasPinching /\ currentStroke # << >>
         THEN << >>
         ELSE currentStroke

\* the drawing block with the open stroke kept when the pinch ends
StrokeKeptOnRelease(wasPinching, currentStroke, isPinching, pinchPosition, color) ==
    IF isPinching
    THEN IF ~wasPinching
         THEN << [points |-> <<pinchPosition>>, color |-> color] >>
         ELSE IF currentStroke # << >>
              THEN << [currentStroke[1] EXCEPT !.points = Append(@, pinchPosition)] >>
              ELSE currentStroke
    ELSE currentStroke

\* the drawing block opening a stroke without its first point
StrokeSeededEmpty(wasPinching, currentStroke, isPinching, pinchPosition, color) ==
    IF isPinching
    THEN IF ~wasPinching
         THEN << [points |-> << >>, color |-> color] >>
         ELSE IF currentStroke # << >>
              THEN << [currentStroke[1] EXCEPT !.points = Append(@, pinchPosition)] >>
              ELSE currentStroke
    ELSE IF wasPinching /\ currentStroke # << >>
         THEN << >>
         ELSE currentStroke

\* currentStrokeRef.current after the drawing block
StrokeAfterFrame(wasPinching, currentStroke, isPinching, pinchPosition, color) ==
    IF isPinching
    THEN IF ~wasPinching
         THEN << [points |-> <<pinchPosition>>, color |-> color] >>
         ELSE IF currentStroke # << >>
              THEN << [currentStroke[1] EXCEPT !.points = Append(@, pinchPosition)] >>
              ELSE currentStroke
    ELSE IF wasPinching /\ currentStroke # << >>
         THEN << >>
         ELSE currentStroke

\* the end-of-stroke branch committing every non-empty stroke (length > 0)
HistoryCommitAny(wasPinching, currentStroke, strokes, isPinching) ==
    IF ~isPinching /\ wasPinching /\ currentStroke # << >> /\ Len(currentStroke[1].points) > 0
    THEN Append(strokes, currentStroke[1])
    ELSE strokes

\* the end-of-stroke branch without its push
HistoryNeverCommitted(wasPinching, currentStroke, strokes, isPinching) == strokes

\* strokesRef.current after the drawing block
HistoryAfterFrame(wasPinching, currentStroke, strokes, isPinching) ==
    IF ~isPinching /\ wasPinching /\ currentStroke # << >> /\ Len(currentStroke[1].points) > 1
    THEN Append(strokes, currentStroke[1])
    ELSE strokes

\* the guard at the top of processFrame without the comparison of video times
SkipFrameNoDedup ==
    \/ ~mounted
    \/ landmarker \notin {"ready", "closed"}

\* the guard at the top of processFrame: refs missing or the video time not changed
SkipFrame ==
    \/ ~mounted
    \/ landmarker \notin {"ready", "closed"}
    \/ videoTime = lastVideoTimeRef

\* the callback of call c ran with an early return that requests no next frame
RescheduledUnlessSkipped(queue, c, skipped) == IF skipped THEN queue \ {c} ELSE queue

\* the frame callbacks pending after the callback of call c ran: it left the queue, and
\* every path of processFrame ends in requestAnimationFrame(processFrame)
Rescheduled(queue, c, skipped) == (queue \ {c}) \cup {c}

ProcessFrame(c) ==
    /\ experiment = "hand"
    /\ c \in rafQueue
    /\ IF SkipFrame
       THEN UNCHANGED <<dedupVars, pubVars, strokeVars>>
       ELSE LET dm         == closures[c].drawMode
                isPinching == PinchingHands(frame, dm) # {}
                pos        == IF isPinching THEN PinchPosition(frame, dm) ELSE Pt(0, 0)
            IN  /\ lastVideoTimeRef' = videoTime
                /\ detectCount' = detectCount + 1
                /\ handCount' = Len(frame)
                /\ detectedGestures' = NewGestures(frame)
                /\ UNCHANGED jointAngles
                /\ IF dm
                   THEN /\ currentStrokeRef' = StrokeAfterFrame(wasPinchingRef, currentStrokeRef,
                                                                isPinching, pos, closures[c].currentColor)
                        /\ strokesRef' = HistoryAfterFrame(wasPinchingRef, currentStrokeRef,
                                                           strokesRef, isPinching)
                        /\ wasPinchingRef' = isPinching
                   ELSE UNCHANGED strokeVars
    /\ animationRef' = c
    /\ rafQueue' = Rescheduled(rafQueue, c, SkipFrame)
    /\ UNCHANGED <<experiment, callVars, compVars, uiVars, drawVars, camVars, videoVars, placeVars>>

\* processFrame of BodyTrackingExperiment
PoseProcessFrame(c) ==
    /\ experiment = "body"
    /\ c \in rafQueue
    /\ IF SkipFrame
       THEN UNCHANGED <<dedupVars, pubVars>>
       ELSE /\ lastVideoTimeRef' = videoTime
            /\ detectCount' = detectCount + 1
            /\ handCount' = Len(frame)
            /\ detectedGestures' = [i \in 1..Len(frame) |-> detectPose(PersonSample(frame[i]))]
            /\ jointAngles' = IF Len(frame) > 0
                              THEN <<calculateJointAngles(PersonSample(frame[1]))>>
                              ELSE jointAngles
    /\ animationRef' = c
    /\ rafQueue' = Rescheduled(rafQueue, c, SkipFrame)
    /\ UNCHANGED <<experiment, callVars, compVars, uiVars, drawVars, camVars, videoVars,
                   strokeVars, placeVars>>

-----------------------------------------------------------------------------
(* Session life cycle of the tracking experiments *)

\* initHandLandmarker / initPoseLandmarker settles, then the mount effect's init continues
InitLandmarkerDone(ok) ==
    /\ landmarker = "init"
    /\ landmarker' = IF ok THEN "ready" ELSE "failed"
    /\ isLoading' = IF ok /\ mounted THEN FALSE ELSE isLoading
    /\ error' = IF ~ok /\ mounted THEN TRUE ELSE error
    /\ UNCHANGED <<experiment, callVars, mounted, isRunning, drawVars, loopVars, camVars, videoVars,
                   dedupVars, strokeVars, pubVars, placeVars>>

\* the closures after call c captured the processFrame of the current render
Capture(cl, c) ==
    [k \in DOMAIN cl \cup {c} |->
        IF k = c THEN [drawMode |-> drawMode, currentColor |-> currentColor] ELSE cl[k]]

\* the closures after that of call c became unreachable (0: no call)
Release(cl, c) == [k \in DOMAIN cl \ {c} |-> cl[k]]

\* the Start button: shown while !isRunning && !isLoading && !error
StartTracking ==
    /\ mounted /\ ~isRunning /\ ~isLoading /\ ~error
    /\ Len(calls) < MaxStarts
    /\ calls' = Append(calls, [pc |-> "getUserMedia", stream |-> "none"])
    /\ closures' = Capture(closures, Len(calls) + 1)
    /\ UNCHANGED <<experiment, callVars, compVars, uiVars, drawVars, loopVars, srcObject, onloadedmetadata,
                   videoVars, dedupVars, strokeVars, pubVars, placeVars>>

\* detectCount when video.currentTime is set to 0 by a change of srcObject
CountAfterReset == IF videoTime = 0 THEN detectCount ELSE 0

\* getUserMedia settles for call c
GetUserMediaDone(c, ok) ==
    /\ c \in 1..Len(calls)
    /\ calls[c].pc = "getUserMedia"
    /\ IF ~ok
       THEN \* catch: setError; startTracking: setIsLoading(false); return
            /\ calls' = [calls EXCEPT ![c].pc = "failed"]
            /\ closures' = Release(closures, c)
            /\ error' = IF mounted THEN TRUE ELSE error
            /\ isLoading' = IF mounted THEN FALSE ELSE isLoading
            /\ UNCHANGED <<srcObject, onloadedmetadata, videoVars, detectCount, loopVars>>
       ELSE IF mounted
       THEN \* srcObject = stream; wait for loadedmetadata
            /\ calls' = [calls EXCEPT ![c].pc = "metadata", ![c].stream = "live"]
            /\ srcObject' = c
            /\ onloadedmetadata' = c
            /\ videoTime' = 0
            /\ frame' = << >>
            /\ detectCount' = CountAfterReset
            /\ UNCHANGED <<error, isLoading, delivered, loopVars, closures>>
       ELSE \* videoRef.current is null: startCamera returns true, the loop is started
            /\ calls' = [calls EXCEPT ![c].pc = "done", ![c].stream = "live"]
            /\ animationRef' = c
            /\ rafQueue' = rafQueue \cup {c}
            /\ UNCHANGED <<error, isLoading, srcObject, onloadedmetadata, videoVars, detectCount,
                           closures>>
    /\ UNCHANGED <<experiment, callVars, compVars, isRunning, drawVars, lastVideoTimeRef, strokeVars,
                   pubVars, placeVars>>

\* the video element fires loadedmetadata; the handler last assigned runs
LoadedMetadata ==
    /\ srcObject # 0
    /\ onloadedmetadata # 0
    /\ calls[onloadedmetadata].pc = "metadata"
    /\ IF mounted
       THEN \* play(); resolve(); setIsRunning(true); setIsLoading(false); requestAnimationFrame
            /\ calls' = [calls EXCEPT ![onloadedmetadata].pc = "done"]
            /\ isRunning' = TRUE
            /\ isLoading' = FALSE
            /\ animationRef' = onloadedmetadata
            /\ rafQueue' = rafQueue \cup {onloadedmetadata}
            /\ UNCHANGED closures
       ELSE \* videoRef.current!.play() throws: the promise is never resolved
            /\ calls' = [calls EXCEPT ![onloadedmetadata].pc = "hung"]
            /\ closures' = Release(closures, onloadedmetadata)
            /\ UNCHANGED <<isRunning, isLoading, loopVars>>
    /\ UNCHANGED <<experiment, callVars, compVars, error, drawVars, srcObject, onloadedmetadata, videoVars,
                   dedupVars, strokeVars, pubVars, placeVars>>

\* rafQueue after cancelAnimationFrame(animationRef.current)
CancelFrame(queue, ref) == IF ref # 0 THEN queue \ {ref} ELSE queue

\* the Stop button (shown while isRunning)
StopTracking ==
    /\ mounted /\ isRunning
    /\ rafQueue' = CancelFrame(rafQueue, animationRef)
    /\ closures' = Release(closures, animationRef)
    /\ animationRef' = 0
    /\ IF srcObject # 0
       THEN /\ calls' = [calls EXCEPT ![srcObject].stream = "stopped"]
            /\ srcObject' = 0
            /\ videoTime' = 0
            /\ frame' = << >>
            /\ detectCount' = CountAfterReset
       ELSE UNCHANGED <<calls, srcObject, videoTime, frame, detectCount>>
    /\ isRunning' = FALSE
    /\ IF experiment = "body"
       THEN \* setJointAngles(null); setDetectedPoses([])
            /\ jointAngles' = << >>
            /\ detectedGestures' = << >>
       ELSE UNCHANGED <<jointAngles, detectedGestures>>
    /\ UNCHANGED <<experiment, callVars, compVars, isLoading, error, drawVars, onloadedmetadata, delivered,
                   lastVideoTimeRef, strokeVars, handCount, placeVars>>

\* the component unmounts: the refs are detached, then the effect cleanup runs
\* stopTracking() and landmarker.close()
Unmount ==
    /\ mounted
    /\ mounted' = FALSE
    /\ rafQueue' = CancelFrame(rafQueue, animationRef)
    /\ closures' = Release(closures, animationRef)
    /\ animationRef' = 0
    /\ landmarker' = IF landmarker = "ready" THEN "closed" ELSE landmarker
    /\ UNCHANGED <<experiment, callVars, uiVars, drawVars, calls, srcObject, onloadedmetadata, videoVars,
                   dedupVars, strokeVars, pubVars, placeVars>>

\* the Draw ON / Draw OFF button
ToggleDrawMode ==
    /\ experiment = "hand"
    /\ mounted /\ isRunning
    /\ drawMode' = ~drawMode
    /\ UNCHANGED <<experiment, callVars, compVars, uiVars, currentColor, loopVars, camVars, videoVars,
                   dedupVars, strokeVars, pubVars, placeVars>>

\* a color swatch
SetCurrentColor(color) ==
    /\ experiment = "hand"
    /\ mounted /\ isRunning /\ drawMode
    /\ color # currentColor
    /\ currentColor' = color
    /\ UNCHANGED <<experiment, callVars, compVars, uiVars, drawMode, loopVars, camVars, videoVars,
                   dedupVars, strokeVars, pubVars, placeVars>>

\* the Clear button
clearDrawing ==
    /\ experiment = "hand"
    /\ mounted /\ isRunning /\ drawMode
    /\ strokesRef' = << >>
    /\ currentStrokeRef' = << >>
    /\ wasPinchingRef' = FALSE
    /\ UNCHANGED <<experiment, callVars, compVars, uiVars, drawVars, loopVars, camVars, videoVars,
                   dedupVars, pubVars, placeVars>>

Frames == IF experiment = "body" THEN PoseFrames ELSE HandFrames

\* the playing stream shows its next video frame
VideoFrame ==
    /\ mounted
    /\ srcObject # 0
    /\ calls[srcObject].stream = "live"
    /\ delivered < MaxFrames
    /\ delivered' = delivered + 1
    /\ videoTime' = videoTime + 1
    /\ frame' \in Frames
    /\ detectCount' = 0
    /\ UNCHANGED <<experiment, callVars, compVars, uiVars, drawVars, loopVars, camVars, lastVideoTimeRef,
                   strokeVars, pubVars, placeVars>>

TrackingIdle ==
    /\ mounted = TRUE
    /\ landmarker = "init"
    /\ isLoading = TRUE
    /\ isRunning = FALSE
    /\ error = FALSE
    /\ drawMode = TRUE
    /\ currentColor = COLORS[1]
    /\ animationRef = 0
    /\ rafQueue = {}
    /\ calls = << >>
    /\ closures = << >>
    /\ srcObject = 0
    /\ onloadedmetadata = 0
    /\ videoTime = 0
    /\ frame = << >>
    /\ delivered = 0
    /\ lastVideoTimeRef = -1
    /\ detectCount = 0
    /\ strokesRef = << >>
    /\ currentStrokeRef = << >>
    /\ wasPinchingRef = FALSE
    /\ handCount = 0
    /\ detectedGestures = << >>
    /\ jointAngles = << >>

-----------------------------------------------------------------------------
(* Placement experiments: SurfaceDetectionExperiment and WorldTrackingExperiment *)

OBJECT_OPTIONS == <<"cube", "sphere">>
SCENE_PRESETS == <<"markers", "notes">>
ANCHOR_COLORS == <<"#3b82f6", "#ef4444">>
NoteTexts == {"Hello!", "Hi"}

\* poses of hit-test results: position and Euler rotation of the matrix getWorldMatrix yields
PoseA == [position |-> <<2, 0, -4>>, rotation |-> <<0, 1, 0>>]
PoseB == [position |-> <<-1, 3, -2>>, rotation |-> <<1, 0, 0>>]
HitTestResults == { << >>, <<PoseA>>, <<PoseB, PoseA>> }

SelectionTypes == IF experiment = "world" THEN SCENE_PRESETS ELSE OBJECT_OPTIONS

\* the handlePlace callback of the latest render, with the values its closure captured
handlePlace ==
    [id |-> handlePlaceId, type |-> selectedType, color |-> selectedColor, noteText |-> noteText]

\* the reticle's hit-test callback: the new values of visible, lastPosition, lastRotation
ReticleAfterHitTest(results, ok) ==
    IF Len(results) = 0 \/ ~ok
    THEN <<reticleVisible, lastPosition, lastRotation>>
    ELSE <<TRUE, results[1].position, results[1].rotation>>

\* session.addEventListener('select', h): a listener already registered is not added again
AddEventListener(ls, h) ==
    IF \E i \in 1..Len(ls) : ls[i].id = h.id THEN ls ELSE Append(ls, h)

\* handlePlace lifting every position by 0.05 on y, as the surface experiment does
NewObjectLifted(h, pos, rot) ==
    IF experiment = "world"
    THEN [id |-> <<"anchor", now>>, position |-> <<pos[1], pos[2] + 1, pos[3]>>,
          rotation |-> rot, type |-> h.type,
          label |-> IF h.type = "notes" THEN <<h.noteText>> ELSE << >>,
          color |-> h.color, createdAt |-> now]
    ELSE [id |-> <<"obj", now>>, position |-> <<pos[1], pos[2] + 1, pos[3]>>, rotation |-> rot,
          type |-> h.type, scale |-> 1]

\* the object handlePlace h appends for the reticle transform (pos, rot)
NewObject(h, pos, rot) ==
    IF experiment = "world"
    THEN [id |-> <<"anchor", now>>, position |-> pos, rotation |-> rot, type |-> h.type,
          label |-> IF h.type = "notes" THEN <<h.noteText>> ELSE << >>,
          color |-> h.color, createdAt |-> now]
    ELSE [id |-> <<"obj", now>>, position |-> <<pos[1], pos[2] + 1, pos[3]>>, rotation |-> rot,
          type |-> h.type, scale |-> 1]

\* handleSelect without the check of the reticle's visible flag
DispatchSelectAlways(ls, objects) ==
    objects \o [i \in 1..Len(ls) |-> NewObject(ls[i], lastPosition, lastRotation)]

\* the registry after every registered listener has handled one select event
DispatchSelect(ls, objects) ==
    IF reticleVisible
    THEN objects \o [i \in 1..Len(ls) |-> NewObject(ls[i], lastPosition, lastRotation)]
    ELSE objects

\* handleEnterAR: xrStore.enterAR() settles; the AR scene mounts with its reticle hidden
EnterAR(ok) ==
    /\ experiment \in {"surface", "world"}
    /\ ~isInAR
    /\ isInAR' = ok
    /\ listeners' = IF ok /\ experiment = "world" THEN <<handlePlace>> ELSE listeners
    /\ UNCHANGED <<experiment, callVars, trackVars, reticleVars, selVars, registry, now, selectEvents, hitTest>>

\* one XR frame: the hit-test callback, then (surface) the useFrame that adds the listener
XRFrame(results, ok) ==
    /\ experiment \in {"surface", "world"}
    /\ isInAR
    /\ hitTest' = <<[results |-> results, ok |-> ok]>>
    /\ reticleVisible' = ReticleAfterHitTest(results, ok)[1]
    /\ lastPosition' = ReticleAfterHitTest(results, ok)[2]
    /\ lastRotation' = ReticleAfterHitTest(results, ok)[3]
    /\ listeners' = IF experiment = "surface" THEN AddEventListener(listeners, handlePlace)
                    ELSE listeners
    /\ UNCHANGED <<experiment, callVars, trackVars, isInAR, selVars, registry, now, selectEvents>>

\* the XR session dispatches a select event
Select ==
    /\ experiment \in {"surface", "world"}
    /\ isInAR
    /\ selectEvents < MaxSelects
    /\ selectEvents' = selectEvents + 1
    /\ registry' = DispatchSelect(listeners, registry)
    /\ UNCHANGED <<experiment, callVars, trackVars, isInAR, reticleVars, selVars, listeners, now, hitTest>>

\* the listeners after a render that re-created handlePlace as h
ListenersAfterRender(h) ==
    IF experiment = "world" /\ isInAR THEN <<h>> ELSE listeners

\* an object / anchor type button
SetSelectedType(t) ==
    /\ experiment \in {"surface", "world"}
    /\ t # selectedType
    /\ handlePlaceId < MaxHandlers
    /\ selectedType' = t
    /\ handlePlaceId' = handlePlaceId + 1
    /\ listeners' = ListenersAfterRender([handlePlace EXCEPT !.id = handlePlaceId + 1, !.type = t])
    /\ UNCHANGED <<experiment, callVars, trackVars, isInAR, reticleVars, selectedColor, noteText, registry,
                   now, selectEvents, hitTest>>

\* a color button
SetSelectedColor(c) ==
    /\ experiment = "world"
    /\ c # selectedColor
    /\ handlePlaceId < MaxHandlers
    /\ selectedColor' = c
    /\ handlePlaceId' = handlePlaceId + 1
    /\ listeners' = ListenersAfterRender([handlePlace EXCEPT !.id = handlePlaceId + 1, !.color = c])
    /\ UNCHANGED <<experiment, callVars, trackVars, isInAR, reticleVars, selectedType, noteText, registry,
                   now, selectEvents, hitTest>>

\* the note input, shown while selectedType is 'notes'
SetNoteText(text) ==
    /\ experiment = "world"
    /\ selectedType = "notes"
    /\ text # noteText
    /\ handlePlaceId < MaxHandlers
    /\ noteText' = text
    /\ handlePlaceId' = handlePlaceId + 1
    /\ listeners' = ListenersAfterRender([handlePlace EXCEPT !.id = handlePlaceId + 1,
                                                             !.noteText = text])
    /\ UNCHANGED <<experiment, callVars, trackVars, isInAR, reticleVars, selectedType, selectedColor,
                   registry, now, selectEvents, hitTest>>

\* the Clear button
handleClear ==
    /\ experiment \in {"surface", "world"}
    /\ isInAR
    /\ experiment = "world" => Len(registry) # 0
    /\ registry' = << >>
    /\ UNCHANGED <<experiment, callVars, trackVars, isInAR, reticleVars, selVars, listeners, now,
                   selectEvents, hitTest>>

\* the registry with its oldest anchor dropped
WithoutFirst(objects) == SubSeq(objects, 2, Len(objects))

\* prev.slice(0, -1)
WithoutLast(objects) == SubSeq(objects, 1, Len(objects) - 1)

\* the Undo button
handleUndo ==
    /\ experiment = "world"
    /\ isInAR
    /\ Len(registry) # 0
    /\ registry' = WithoutLast(registry)
    /\ UNCHANGED <<experiment, callVars, trackVars, isInAR, reticleVars, selVars, listeners, now,
                   selectEvents, hitTest>>

\* the clock advances
Tick ==
    /\ experiment \in {"surface", "world"}
    /\ now < MaxNow
    /\ now' = now + 1
    /\ UNCHANGED <<experiment, callVars, trackVars, isInAR, reticleVars, selVars, listeners, registry,
                   selectEvents, hitTest>>

PlacementIdle ==
    /\ isInAR = FALSE
    /\ reticleVisible = FALSE
    /\ lastPosition = <<0, 0, 0>>
    /\ lastRotation = <<0, 0, 0>>
    /\ selectedType = SelectionTypes[1]
    /\ selectedColor = ANCHOR_COLORS[1]
    /\ noteText = "Hello!"
    /\ handlePlaceId = 0
    /\ listeners = << >>
    /\ registry = << >>
    /\ now = 0
    /\ selectEvents = 0
    /\ hitTest = << >>

-----------------------------------------------------------------------------
(* Specifications *)

\* no call of a classifier on its own
NoCall ==
    /\ argLandmarks = << >>
    /\ argIsRightHand = FALSE
    /\ returned = << >>

TrackingInit ==
    /\ experiment \in {"hand", "body"}
    /\ TrackingIdle
    /\ PlacementIdle
    /\ NoCall

TrackingNext ==
    \/ \E ok \in BOOLEAN : InitLandmarkerDone(ok)
    \/ StartTracking
    \/ \E c \in 1..MaxStarts, ok \in BOOLEAN : GetUserMediaDone(c, ok)
    \/ LoadedMetadata
    \/ \E c \in 1..MaxStarts : ProcessFrame(c)
    \/ \E c \in 1..MaxStarts : PoseProcessFrame(c)
    \/ StopTracking
    \/ Unmount
    \/ ToggleDrawMode
    \/ \E i \in 1..Len(COLORS) : SetCurrentColor(COLORS[i])
    \/ clearDrawing
    \/ VideoFrame

SpecTracking == TrackingInit /\ [][TrackingNext]_vars

\* the browser runs every pending animation frame callback
TrackingFairness ==
    \A c \in 1..MaxStarts : WF_vars(ProcessFrame(c)) /\ WF_vars(PoseProcessFrame(c))

SpecTrackingFair == SpecTracking /\ TrackingFairness

PlacementInit ==
    /\ experiment \in {"surface", "world"}
    /\ TrackingIdle
    /\ PlacementIdle
    /\ NoCall

PlacementNext ==
    \/ \E ok \in BOOLEAN : EnterAR(ok)
    \/ \E results \in HitTestResults, ok \in BOOLEAN : XRFrame(results, ok)
    \/ Select
    \/ \E i \in 1..Len(SelectionTypes) : SetSelectedType(SelectionTypes[i])
    \/ \E i \in 1..Len(ANCHOR_COLORS) : SetSelectedColor(ANCHOR_COLORS[i])
    \/ \E text \in NoteTexts : SetNoteText(text)
    \/ handleClear
    \/ handleUndo
    \/ Tick

SpecPlacement == PlacementInit /\ [][PlacementNext]_vars

\* the y of <<tip, pip, mcp>> of a finger: stretched upwards, tip curled below the pip,
\* pip dropped below the mcp, and tip level with the pip
FingerShapes == {"extended", "curled", "hooked", "level"}

FingerChain(shape) ==
    CASE shape = "extended" -> <<450, 525, 600>>
      [] shape = "curled"   -> <<560, 525, 600>>
      [] shape = "hooked"   -> <<600, 650, 600>>
      [] OTHER              -> <<525, 525, 600>>

\* the x of <<tip, ip, mcp>> of the thumb: pointing left, pointing right, ip pushed right of
\* both, and all three in line
ThumbShapes == {"left", "right", "bent", "flat"}

ThumbChain(shape) ==
    CASE shape = "left"  -> <<300, 350, 400>>
      [] shape = "right" -> <<500, 450, 400>>
      [] shape = "bent"  -> <<420, 450, 400>>
      [] OTHER           -> <<400, 400, 400>>

\* thumb tip relative to index tip, as <<dx, dy>>: coinciding, at distance just under 0.05,
\* at distance exactly 0.05, and far apart
TipGaps == { <<0, 0>>, <<30, 39>>, <<30, 40>>, <<300, 0>> }

\* a hand of 21 landmarks with the given thumb, the four fingers (index, middle, ring, pinky)
\* and the gap between thumb tip and index tip
HandInput(thumb, fingers, gap) ==
    LET y(f, k) == FingerChain(fingers[f])[k]
        tipX    == ThumbChain(thumb)[1]
    IN  [i \in 0..20 |->
            CASE i = THUMB_MCP  -> Pt(ThumbChain(thumb)[3], 750)
              [] i = THUMB_IP   -> Pt(ThumbChain(thumb)[2], 700)
              [] i = THUMB_TIP  -> Pt(tipX, y(1, 1) + gap[2])
              [] i = INDEX_TIP  -> Pt(tipX - gap[1], y(1, 1))
              [] i = INDEX_PIP  -> Pt(450, y(1, 2))
              [] i = INDEX_MCP  -> Pt(450, y(1, 3))
              [] i = MIDDLE_TIP -> Pt(500, y(2, 1))
              [] i = MIDDLE_PIP -> Pt(500, y(2, 2))
              [] i = MIDDLE_MCP -> Pt(500, y(2, 3))
              [] i = RING_TIP   -> Pt(550, y(3, 1))
              [] i = RING_PIP   -> Pt(550, y(3, 2))
              [] i = RING_MCP   -> Pt(550, y(3, 3))
              [] i = PINKY_TIP  -> Pt(600, y(4, 1))
              [] i = PINKY_PIP  -> Pt(600, y(4, 2))
              [] i = PINKY_MCP  -> Pt(600, y(4, 3))
              [] OTHER          -> OpenHandLandmarks[i]]

HandInputs ==
    { HandInput(thumb, fingers, gap) :
        thumb \in ThumbShapes,
        fingers \in [1..4 -> FingerShapes],
        gap \in TipGaps }

\* one call detectGesture(landmarks, isRightHand)
ClassifyHand ==
    /\ experiment = "hand"
    /\ Len(returned) < MaxCalls
    /\ returned' = Append(returned, detectGesture(argLandmarks, argIsRightHand))
    /\ UNCHANGED <<experiment, trackVars, placeVars, argLandmarks, argIsRightHand>>

GestureInit ==
    /\ experiment = "hand"
    /\ TrackingIdle
    /\ PlacementIdle
    /\ argLandmarks \in HandInputs
    /\ argIsRightHand \in BOOLEAN
    /\ returned = << >>

GestureNext == ClassifyHand

SpecGesture == GestureInit /\ [][GestureNext]_vars

\* a body landmark with its visibility field: <<v>>, or << >> when the field is absent
Landmark(xy, v) == [x |-> xy[1], y |-> xy[2], visibility |-> v]

\* the arms: hanging, stretched upwards, stretched sideways, hands on the hips
ArmShapes == {"down", "up", "tpose", "hips"}
\* the legs: straight, both knees at 90 degrees, both knees at about 146 degrees, only the
\* left knee at 90 degrees, both knees at 90 degrees but not visible, and both knees at 90
\* degrees with the left one not visible
LegShapes == {"straight", "sitting", "bent", "half", "sittingHidden", "sittingLeftHidden"}
\* the shift of the shoulders against the hips: torso tilt 0, 0.25 and 0.5
Leans == {0, 50, 100}
\* visibility of a shoulder or hip: 0.9, exactly 0.5, and absent
Visibilities == { <<900>>, <<500>>, << >> }

\* a body of 33 landmarks with the given arms, legs, lean and shoulder / hip visibilities
PoseInput(arms, legs, lean, vis) ==
    LET leftBent  == legs \in {"sitting", "half", "sittingHidden", "sittingLeftHidden"}
        rightBent == legs \in {"sitting", "sittingHidden", "sittingLeftHidden"}
        leftKneeVis  == IF legs \in {"sittingHidden", "sittingLeftHidden"} THEN <<300>> ELSE <<900>>
        rightKneeVis == IF legs = "sittingHidden" THEN <<300>> ELSE <<900>>
    IN  [i \in 0..32 |->
            CASE i = LEFT_SHOULDER  -> Landmark(<<600 + lean, 300>>, vis[i])
              [] i = RIGHT_SHOULDER -> Landmark(<<400 + lean, 300>>, vis[i])
              [] i = LEFT_HIP       -> Landmark(<<550, 600>>, vis[i])
              [] i = RIGHT_HIP      -> Landmark(<<450, 600>>, vis[i])
              [] i = LEFT_ELBOW     ->
                    Landmark(CASE arms = "up"    -> <<600 + lean, 150>>
                               [] arms = "tpose" -> <<750 + lean, 300>>
                               [] arms = "hips"  -> <<700 + lean, 450>>
                               [] OTHER          -> <<600 + lean, 450>>, <<900>>)
              [] i = LEFT_WRIST     ->
                    Landmark(CASE arms = "up"    -> <<600 + lean, 0>>
                               [] arms = "tpose" -> <<900 + lean, 300>>
                               [] arms = "hips"  -> <<600, 600>>
                               [] OTHER          -> <<600 + lean, 600>>, <<900>>)
              [] i = RIGHT_ELBOW    ->
                    Landmark(CASE arms = "up"    -> <<400 + lean, 150>>
                               [] arms = "tpose" -> <<250 + lean, 300>>
                               [] arms = "hips"  -> <<300 + lean, 450>>
                               [] OTHER          -> <<400 + lean, 450>>, <<900>>)
              [] i = RIGHT_WRIST    ->
                    Landmark(CASE arms = "up"    -> <<400 + lean, 0>>
                               [] arms = "tpose" -> <<100 + lean, 300>>
                               [] arms = "hips"  -> <<400, 600>>
                               [] OTHER          -> <<400 + lean, 600>>, <<900>>)
              [] i = LEFT_KNEE      ->
                    Landmark(IF leftBent THEN <<700, 600>> ELSE <<550, 750>>, leftKneeVis)
              [] i = LEFT_ANKLE     ->
                    Landmark(IF leftBent THEN <<700, 750>>
                             ELSE IF legs = "bent" THEN <<650, 900>> ELSE <<550, 900>>, <<900>>)
              [] i = RIGHT_KNEE     ->
                    Landmark(IF rightBent THEN <<300, 600>> ELSE <<450, 750>>, rightKneeVis)
              [] i = RIGHT_ANKLE    ->
                    Landmark(IF rightBent THEN <<300, 750>>
                             ELSE IF legs = "bent" THEN <<350, 900>> ELSE <<450, 900>>, <<900>>)
              [] OTHER              -> StandingLandmarks[i]]

PoseInputs ==
    { PoseInput(arms, legs, lean, vis) :
        arms \in ArmShapes,
        legs \in LegShapes,
        lean \in Leans,
        vis \in [{LEFT_SHOULDER, RIGHT_SHOULDER, LEFT_HIP, RIGHT_HIP} -> Visibilities] }

\* the angle at a shoulder between hip and a horizontally stretched arm: 70 degrees, 110
\* degrees, and about 99 degrees
ShoulderAngles == {"70", "110", "mid"}

\* the hip under a shoulder at xy that makes the given angle with an arm stretched to the
\* side (the left arm towards greater x, the right arm towards smaller x)
HipUnder(xy, angle, isLeft) ==
    CASE angle = "mid" -> <<IF isLeft THEN xy[1] - 50 ELSE xy[1] + 50, xy[2] + 300>>
      [] (angle = "70") = isLeft -> <<xy[1] + 99, xy[2] + 272>>
      [] OTHER -> <<xy[1] - 99, xy[2] + 272>>

\* a visible body with straight arms stretched sideways at shoulder height, straight legs,
\* and the given shoulder angles
TPoseInput(leftAngle, rightAngle) ==
    LET lh == HipUnder(<<600, 300>>, leftAngle, TRUE)
        rh == HipUnder(<<400, 300>>, rightAngle, FALSE)
    IN  [i \in 0..32 |->
            CASE i = LEFT_SHOULDER  -> Landmark(<<600, 300>>, <<900>>)
              [] i = RIGHT_SHOULDER -> Landmark(<<400, 300>>, <<900>>)
              [] i = LEFT_ELBOW     -> Landmark(<<750, 300>>, <<900>>)
              [] i = RIGHT_ELBOW    -> Landmark(<<250, 300>>, <<900>>)
              [] i = LEFT_WRIST     -> Landmark(<<900, 300>>, <<900>>)
              [] i = RIGHT_WRIST    -> Landmark(<<100, 300>>, <<900>>)
              [] i = LEFT_HIP       -> Landmark(lh, <<900>>)
              [] i = RIGHT_HIP      -> Landmark(rh, <<900>>)
              [] i = LEFT_KNEE      -> Landmark(<<lh[1], lh[2] + 150>>, <<900>>)
              [] i = RIGHT_KNEE     -> Landmark(<<rh[1], rh[2] + 150>>, <<900>>)
              [] i = LEFT_ANKLE     -> Landmark(<<lh[1], lh[2] + 300>>, <<900>>)
              [] i = RIGHT_ANKLE    -> Landmark(<<rh[1], rh[2] + 300>>, <<900>>)
              [] OTHER              -> StandingLandmarks[i]]

TPoseInputs ==
    { TPoseInput(leftAngle, rightAngle) : leftAngle \in ShoulderAngles, rightAngle \in ShoulderAngles }

\* a body with both shoulders at y = 0.5, both arms straight up with the wrists at y = 0.2,
\* both shoulder angles 160 degrees, and the given visibility of the left hip
ArmsUpInput(v) ==
    [i \in 0..32 |->
        CASE i = LEFT_SHOULDER  -> Landmark(<<600, 500>>, <<900>>)
          [] i = RIGHT_SHOULDER -> Landmark(<<400, 500>>, <<900>>)
          [] i = LEFT_ELBOW     -> Landmark(<<600, 350>>, <<900>>)
          [] i = RIGHT_ELBOW    -> Landmark(<<400, 350>>, <<900>>)
          [] i = LEFT_WRIST     -> Landmark(<<600, 200>>, <<900>>)
          [] i = RIGHT_WRIST    -> Landmark(<<400, 200>>, <<900>>)
          [] i = LEFT_HIP       -> Landmark(<<501, 772>>, v)
          [] i = RIGHT_HIP      -> Landmark(<<499, 772>>, <<900>>)
          [] i = LEFT_KNEE      -> Landmark(<<501, 872>>, <<900>>)
          [] i = RIGHT_KNEE     -> Landmark(<<499, 872>>, <<900>>)
          [] i = LEFT_ANKLE     -> Landmark(<<501, 972>>, <<900>>)
          [] i = RIGHT_ANKLE    -> Landmark(<<499, 972>>, <<900>>)
          [] OTHER              -> StandingLandmarks[i]]

ArmsUpInputs == { ArmsUpInput(v) : v \in Visibilities }

\* the first n landmarks of a set
Truncated(landmarks, n) == [i \in 0..(n - 1) |-> landmarks[i]]

\* a standing and a sitting body with all four torso landmarks visible, cut to 29 and to 32
\* landmarks instead of 33
ShortPoseInputs ==
    { Truncated(PoseInput("down", legs,  0,
                          [i \in {LEFT_SHOULDER, RIGHT_SHOULDER, LEFT_HIP, RIGHT_HIP} |-> <<900>>]),
                n) : legs \in {"straight", "sitting"}, n \in {29, 32} }

\* one call detectPose(landmarks)
ClassifyPose ==
    /\ experiment = "body"
    /\ Len(returned) < MaxCalls
    /\ returned' = Append(returned, detectPose(argLandmarks))
    /\ UNCHANGED <<experiment, trackVars, placeVars, argLandmarks, argIsRightHand>>

PoseInit ==
    /\ experiment = "body"
    /\ TrackingIdle
    /\ PlacementIdle
    /\ argLandmarks \in PoseInputs \cup TPoseInputs \cup ArmsUpInputs \cup ShortPoseInputs
    /\ argIsRightHand = FALSE
    /\ returned = << >>

PoseNext == ClassifyPose

SpecPose == PoseInit /\ [][PoseNext]_vars

\* the coordinates of the points calculateAngle is called on
AngleCoordinates == {0, 50, 150, 300}

AnglePoints == { Pt(x, y) : x \in AngleCoordinates, y \in AngleCoordinates }

\* one call calculateAngle(a, b, c) or, with the outer arguments swapped, calculateAngle(c, b, a)
CallCalculateAngle(swapped) ==
    /\ experiment = "body"
    /\ Len(returned) < MaxCalls
    /\ returned' = Append(returned,
                          [swapped |-> swapped,
                           angle   |-> IF swapped
                                       THEN calculateAngle(argLandmarks[3], argLandmarks[2],
                                                           argLandmarks[1])
                                       ELSE calculateAngle(argLandmarks[1], argLandmarks[2],
                                                           argLandmarks[3])])
    /\ UNCHANGED <<experiment, trackVars, placeVars, argLandmarks, argIsRightHand>>

AngleInit ==
    /\ experiment = "body"
    /\ TrackingIdle
    /\ PlacementIdle
    /\ argLandmarks \in AnglePoints \X AnglePoints \X AnglePoints
    /\ argIsRightHand = FALSE
    /\ returned = << >>

AngleNext == \E swapped \in BOOLEAN : CallCalculateAngle(swapped)

SpecAngle == AngleInit /\ [][AngleNext]_vars

-----------------------------------------------------------------------------
(* Properties of the stroke recorder and the frame dedup *)

\* a step of the hand processFrame that passes the guard, run by a closure with draw mode on
DrawingFrame(c) == ProcessFrame(c) /\ ~SkipFrame /\ closures[c].drawMode

\* the pinch signal of the current video frame (draw mode on)
PinchSignal == PinchingHands(frame, TRUE) # {}

\* C1: with draw mode on, a processed pinch frame from Idle opens a stroke of one point, every
\* further processed pinch frame appends exactly its point at the end and commits nothing, and
\* the processed frame that ends a pinch of N >= 2 points commits exactly one stroke, holding
\* those N points in the order they were appended.
C1_StrokeCommitted ==
    [][\A c \in 1..MaxStarts : DrawingFrame(c) =>
        /\ (~wasPinchingRef /\ PinchSignal) =>
              /\ currentStrokeRef' # << >>
              /\ currentStrokeRef'[1].points = <<PinchPosition(frame, TRUE)>>
              /\ strokesRef' = strokesRef
        /\ (wasPinchingRef /\ PinchSignal /\ currentStrokeRef # << >>) =>
              /\ currentStrokeRef' # << >>
              /\ currentStrokeRef'[1].points
                    = Append(currentStrokeRef[1].points, PinchPosition(frame, TRUE))
              /\ strokesRef' = strokesRef
        /\ (wasPinchingRef /\ ~PinchSignal /\ currentStrokeRef # << >>
                /\ Len(currentStrokeRef[1].points) >= 2) =>
              /\ Len(strokesRef') = Len(strokesRef) + 1
              /\ SubSeq(strokesRef', 1, Len(strokesRef)) = strokesRef
              /\ strokesRef'[Len(strokesRef')].points = currentStrokeRef[1].points
              /\ currentStrokeRef' = << >>
              /\ ~wasPinchingRef'
    ]_vars

\* a pinch over two processed frames, at two different places, committed as one stroke
C1_Witness ==
    /\ experiment = "hand"
    /\ strokesRef = << [points |-> <<Pt(560, 270), Pt(576, 279)>>, color |-> COLORS[1]] >>
    /\ currentStrokeRef = << >>
    /\ ~wasPinchingRef

\* C2: with draw mode on, the processed frame that ends a pinch of exactly one point commits
\* nothing: the history is unchanged, the open stroke is empty again and the pinch flag is off.
C2_SinglePointDiscarded ==
    [][\A c \in 1..MaxStarts :
        (DrawingFrame(c) /\ wasPinchingRef /\ ~PinchSignal /\ currentStrokeRef # << >>
            /\ Len(currentStrokeRef[1].points) = 1) =>
              /\ strokesRef' = strokesRef
              /\ currentStrokeRef' = << >>
              /\ ~wasPinchingRef'
    ]_vars

\* a one-point stroke from Idle, open while the frame that ends the pinch waits for a running loop
C2_Witness ==
    /\ experiment = "hand"
    /\ mounted /\ landmarker = "ready" /\ rafQueue # {}
    /\ strokesRef = << >>
    /\ wasPinchingRef
    /\ currentStrokeRef # << >> /\ Len(currentStrokeRef[1].points) = 1
    /\ ~PinchSignal
    /\ videoTime # lastVideoTimeRef
    /\ \A c \in rafQueue : closures[c].drawMode

\* C3: every stroke of the committed history has at least two points, in every reachable state.
C3_CommittedStrokesHaveTwoPoints ==
    \A i \in 1..Len(strokesRef) : Len(strokesRef[i].points) >= 2

\* a committed stroke that is still in the history after tracking was stopped
C3_Witness ==
    /\ experiment = "hand"
    /\ Len(strokesRef) >= 1
    /\ mounted /\ ~isRunning /\ srcObject = 0

\* C4: while the video time is unchanged the landmarker runs at most once, and a frame callback
\* invoked at a video time already seen appends no point, takes no pinch transition and
\* publishes nothing.
C4_FrameDedup ==
    /\ [](detectCount <= 1)
    /\ [][\A c \in 1..MaxStarts :
            ((ProcessFrame(c) \/ PoseProcessFrame(c)) /\ videoTime = lastVideoTimeRef) =>
                UNCHANGED <<strokeVars, pubVars, dedupVars>>
       ]_vars

\* two frame loops both waiting at a video time that has been detected once, in mid-stroke
C4_Witness ==
    /\ detectCount = 1
    /\ videoTime = lastVideoTimeRef
    /\ videoTime > 0
    /\ Cardinality(rafQueue) = 2
    /\ wasPinchingRef

\* C9: a detection pass runs only while the component is mounted and tracking is running or
\* being started, and a step that releases camera tracks leaves no frame callback pending.
C9_NoDetectionAfterStop ==
    [][/\ detectCount' = detectCount + 1 =>
              /\ mounted
              /\ \/ isRunning
                 \/ \E c \in 1..Len(calls) : calls[c].pc \in {"getUserMedia", "metadata"}
       /\ (\E c \in 1..Len(calls) : calls[c].stream = "live" /\ calls'[c].stream = "stopped") =>
              rafQueue' = {}
    ]_vars

\* C10: when a start of tracking completes, the stroke recorder is Idle and the last-seen
\* video time has its initial value.
C10_FreshSessionState ==
    [][(~isRunning /\ isRunning') =>
        /\ lastVideoTimeRef' = -1
        /\ ~wasPinchingRef'
        /\ currentStrokeRef' = << >>
    ]_vars

\* a startTracking call is still waiting for its camera
StartInProgress == \E c \in 1..Len(calls) : calls[c].pc \in {"getUserMedia", "metadata"}

\* C11: once the component has been torn down, or tracking has been stopped with no start in
\* progress, no camera stream acquired by startCamera still has live tracks.
C11_StreamsReleased ==
    (~mounted \/ (~isRunning /\ ~StartInProgress)) =>
        \A c \in 1..Len(calls) : calls[c].stream # "live"

\* C25: once the landmarker failed to initialize or the camera could not be acquired, the error
\* is shown, the session is not running and never becomes running, no frame callback is
\* requested, and no initialization or camera acquisition is begun.
C25_FailureIsTerminal ==
    [][(error \/ error')
          => /\ error'
             /\ ~isRunning'
             /\ rafQueue' \subseteq rafQueue
             /\ Len(calls') = Len(calls)
             /\ (landmarker' = "init" => landmarker = "init")]_vars

\* C26: after each processed frame there are as many gesture labels as detected hands and as
\* many pose labels as detected people, and the label of the detection at each index is the
\* classification of that detection's landmarks.
C26_OneLabelPerDetection ==
    [][\A c \in 1..MaxStarts :
          /\ (ProcessFrame(c) /\ ~SkipFrame) =>
                /\ Cardinality(DOMAIN detectedGestures') = Len(frame)
                /\ \A i \in 1..Len(frame) :
                      /\ HandSample(frame[i]).handedness \in DOMAIN detectedGestures'
                      /\ detectedGestures'[HandSample(frame[i]).handedness] = HandGesture(frame[i])
          /\ (PoseProcessFrame(c) /\ ~SkipFrame) =>
                /\ Len(detectedGestures') = Len(frame)
                /\ \A i \in 1..Len(frame) :
                      detectedGestures'[i] = detectPose(PersonSample(frame[i]))]_vars

\* the first detection index of a set of indices
First(S) == CHOOSE i \in S : \A j \in S : i <= j

\* C28: a drawing frame in which more than one hand pinches records exactly one point, the
\* midpoint of the first pinching hand of the result array.
C28_FirstPinchingHandDraws ==
    [][\A c \in 1..MaxStarts :
          (DrawingFrame(c) /\ Cardinality(PinchingHands(frame, TRUE)) > 1) =>
              /\ currentStrokeRef' # << >>
              /\ Len(currentStrokeRef'[1].points) =
                    IF wasPinchingRef /\ currentStrokeRef # << >>
                    THEN Len(currentStrokeRef[1].points) + 1
                    ELSE 1
              /\ currentStrokeRef'[1].points[Len(currentStrokeRef'[1].points)] =
                    PinchMidpoint(HandSample(frame[First(PinchingHands(frame, TRUE))]).landmarks)]_vars

\* C27: every run of the per-frame callback, skipped or not, leaves exactly its own next run
\* pending, and while the session is running a video frame with a new timestamp is eventually
\* processed.
C27_LoopNeverStalls ==
    /\ [][\A c \in 1..MaxStarts :
             (ProcessFrame(c) \/ PoseProcessFrame(c)) =>
                 /\ rafQueue' = rafQueue
                 /\ c \in rafQueue'
                 /\ animationRef' = c]_vars
    /\ [](mounted /\ isRunning => rafQueue # {})
    /\ ((mounted /\ isRunning /\ videoTime # lastVideoTimeRef)
           ~> (videoTime = lastVideoTimeRef \/ ~isRunning \/ ~mounted))

\* the running loop has processed the last video frame and its next run is pending
C27_Witness ==
    /\ mounted /\ isRunning
    /\ animationRef \in rafQueue
    /\ delivered = MaxFrames
    /\ lastVideoTimeRef = videoTime
    /\ detectCount = 1

\* C31: when the teardown's stopTracking ran while a start was still waiting for the camera
\* (for getUserMedia or for loadedmetadata), then once that start resumes no frame callback is
\* pending and the stream it acquired is not live.
C31_StopWinsOverStart ==
    [][\A c \in 1..MaxStarts :
          (~mounted /\ (GetUserMediaDone(c, TRUE) \/ (LoadedMetadata /\ onloadedmetadata = c))) =>
              /\ rafQueue' = {}
              /\ calls'[c].stream # "live"]_vars

\* C32: at any time at most one frame callback is pending and at most one camera stream is
\* live, for any sequence of starts and stops.
C32_SingleLoopSingleStream ==
    /\ Cardinality(rafQueue) <= 1
    /\ Cardinality({ c \in 1..Len(calls) : calls[c].stream = "live" }) <= 1

\* C33: in the hand experiment the pinch flag is set exactly when an open stroke exists, the
\* open stroke has at least one point, and there is at most one open stroke.
C33_RecorderConsistent ==
    experiment = "hand" =>
        /\ wasPinchingRef <=> (currentStrokeRef # << >>)
        /\ Len(currentStrokeRef) <= 1
        /\ currentStrokeRef # << >> => Len(currentStrokeRef[1].points) >= 1

\* a stroke is open with two points when the last video frame has been delivered
C33_Witness ==
    /\ experiment = "hand"
    /\ wasPinchingRef
    /\ currentStrokeRef # << >>
    /\ Len(currentStrokeRef[1].points) = 2
    /\ delivered = MaxFrames

\* C34: while draw mode is off, a run of the per-frame callback starts no stroke, appends no
\* point and commits no stroke.
C34_DrawOffLeavesRecorder ==
    [][\A c \in 1..MaxStarts :
          (ProcessFrame(c) /\ ~drawMode) =>
              /\ currentStrokeRef' = currentStrokeRef
              /\ strokesRef' = strokesRef
              /\ wasPinchingRef' = wasPinchingRef]_vars

\* C12: with draw mode on, a processed pinch frame from Idle opens a stroke that carries the
\* color selected at that frame.
C12_StrokeSeededWithCurrentColor ==
    [][\A c \in 1..MaxStarts : (DrawingFrame(c) /\ ~wasPinchingRef /\ PinchSignal) =>
        /\ currentStrokeRef' # << >>
        /\ currentStrokeRef'[1].color = currentColor
    ]_vars

\* C13 as stated: a processed frame in which no hand is detected changes neither the open
\* stroke, nor the committed history, nor the pinch flag.
C13_NoHandHoldsState ==
    [][\A c \in 1..MaxStarts : (ProcessFrame(c) /\ ~SkipFrame /\ frame = << >>) =>
        UNCHANGED strokeVars
    ]_vars

\* C13: with draw mode on, a processed frame in which no hand is detected drives the recorder
\* with pinch = false: an open stroke is closed, committed when it has at least two points and
\* discarded otherwise, and the pinch flag is off afterwards; from Idle nothing changes.
C13_NoHandEndsStroke ==
    [][\A c \in 1..MaxStarts : (DrawingFrame(c) /\ frame = << >>) =>
        /\ ~wasPinchingRef'
        /\ IF wasPinchingRef /\ currentStrokeRef # << >>
           THEN /\ currentStrokeRef' = << >>
                /\ strokesRef' = IF Len(currentStrokeRef[1].points) >= 2
                                 THEN Append(strokesRef, currentStrokeRef[1])
                                 ELSE strokesRef
           ELSE UNCHANGED <<currentStrokeRef, strokesRef>>
    ]_vars

\* a two-point stroke was committed by the processed frame that showed no hand
C13_Witness ==
    /\ experiment = "hand"
    /\ frame = << >>
    /\ videoTime > 0 /\ videoTime = lastVideoTimeRef /\ detectCount = 1
    /\ handCount = 0
    /\ Len(strokesRef) = 1
    /\ currentStrokeRef = << >>
    /\ ~wasPinchingRef

-----------------------------------------------------------------------------
(* Properties of the placement reticle *)

\* C5: a select event dispatched while the reticle is visible appends exactly one object to
\* the registry.
C5_OnePlacementPerSelect ==
    [][(selectEvents' = selectEvents + 1 /\ reticleVisible) =>
        Len(registry') = Len(registry) + 1
    ]_vars

\* C6: whenever the latest XR frame's hit test returned no result, the reticle is not visible.
C6_HiddenAfterZeroHits ==
    (hitTest # << >> /\ Len(hitTest[1].results) = 0) => ~reticleVisible

C8_SelectWhileHiddenIsNoOp ==
    [][(selectEvents' = selectEvents + 1 /\ ~reticleVisible) => registry' = registry]_vars

\* a select was dispatched to a registered listener, the reticle never became visible, and
\* nothing was placed
C8_Witness ==
    /\ isInAR
    /\ selectEvents >= 1
    /\ Len(listeners) >= 1
    /\ ~reticleVisible
    /\ registry = << >>

\* C29: in the world-tracking experiment a select with the reticle visible appends exactly
\* one anchor at the end of the registry, undo removes exactly the last anchor, clear empties
\* the registry, and no other step (XR frame, selection change, hidden select, clock) changes it.
C29_RegistryOperations ==
    [][experiment = "world" =>
          /\ (Select /\ reticleVisible) =>
                /\ Len(registry') = Len(registry) + 1
                /\ SubSeq(registry', 1, Len(registry)) = registry
          /\ (Select /\ ~reticleVisible) => registry' = registry
          /\ handleUndo =>
                /\ Len(registry') = Len(registry) - 1
                /\ registry' = SubSeq(registry, 1, Len(registry'))
          /\ handleClear => registry' = << >>
          /\ ~(Select \/ handleUndo \/ handleClear) => registry' = registry]_vars

\* two different anchors were placed one after the other
C29_Witness ==
    /\ experiment = "world"
    /\ Len(registry) = 2
    /\ registry[1] # registry[2]

\* C30: in the surface-detection experiment at most one select listener is registered on the
\* session at any time.
C30_AtMostOneListener == experiment = "surface" => Len(listeners) <= 1

\* C35: the objects / anchors in the registry have pairwise distinct ids.
C35_DistinctIds ==
    \A i, j \in 1..Len(registry) : i # j => registry[i].id # registry[j].id

\* C14: every object appended by a select event carries the type selected at that moment and,
\* for an anchor, the color selected at that moment and, for type 'notes', the note text of
\* that moment.
C14_TaggedWithCurrentSelection ==
    [][selectEvents' = selectEvents + 1 =>
        \A i \in (Len(registry) + 1)..Len(registry') :
            /\ registry'[i].type = selectedType
            /\ experiment = "world" =>
                  /\ registry'[i].color = selectedColor
                  /\ registry'[i].type = "notes" => registry'[i].label = <<noteText>>
    ]_vars

-----------------------------------------------------------------------------
(* Properties of the gesture classifier *)

\* the digits of the argument hand that satisfy their extended predicate
ExtendedDigits ==
    (IF isThumbExtended(argLandmarks, argIsRightHand) THEN {"thumb"} ELSE {})
    \cup (IF isFingerExtended(argLandmarks, INDEX_TIP, INDEX_PIP, INDEX_MCP) THEN {"index"} ELSE {})
    \cup (IF isFingerExtended(argLandmarks, MIDDLE_TIP, MIDDLE_PIP, MIDDLE_MCP) THEN {"middle"} ELSE {})
    \cup (IF isFingerExtended(argLandmarks, RING_TIP, RING_PIP, RING_MCP) THEN {"ring"} ELSE {})
    \cup (IF isFingerExtended(argLandmarks, PINKY_TIP, PINKY_PIP, PINKY_MCP) THEN {"pinky"} ELSE {})

\* squared distance of the argument hand's thumb tip and index tip
TipDistance2 ==
    (argLandmarks[THUMB_TIP].x - argLandmarks[INDEX_TIP].x)
        * (argLandmarks[THUMB_TIP].x - argLandmarks[INDEX_TIP].x)
    + (argLandmarks[THUMB_TIP].y - argLandmarks[INDEX_TIP].y)
        * (argLandmarks[THUMB_TIP].y - argLandmarks[INDEX_TIP].y)

\* C15: for a hand whose thumb tip and index tip are less than 0.05 apart, every call of
\* detectGesture returns 'pinch', whichever digits are extended and whichever hand it is.
C15_PinchPriority ==
    \A i \in 1..Len(returned) :
        TipDistance2 < PinchThreshold * PinchThreshold => returned[i] = "pinch"

\* a left hand with all five digits extended and the two tips coinciding, classified 'pinch'
C15_Witness ==
    /\ Len(returned) >= 1
    /\ ~argIsRightHand
    /\ argLandmarks[THUMB_TIP] = argLandmarks[INDEX_TIP]
    /\ ExtendedDigits = {"thumb", "index", "middle", "ring", "pinky"}
    /\ returned[1] = "pinch"

\* the labels of the Gesture type
GestureLabels == {"open_palm", "fist", "pointing", "thumbs_up", "pinch", "peace", "unknown"}

C17_PalmAndFist ==
    \A i \in 1..Len(returned) :
        /\ ExtendedDigits = {"thumb", "index", "middle", "ring", "pinky"} => returned[i] = "open_palm"
        /\ ExtendedDigits = {} => returned[i] = "fist"

\* C17: a hand whose thumb tip and index tip are at least 0.05 apart is classified 'open_palm'
\* when all five digits are extended and 'fist' when no digit is extended.
C17_PalmAndFistUnlessPinching ==
    \A i \in 1..Len(returned) :
        TipDistance2 >= PinchThreshold * PinchThreshold =>
            /\ ExtendedDigits = {"thumb", "index", "middle", "ring", "pinky"}
                  => returned[i] = "open_palm"
            /\ ExtendedDigits = {} => returned[i] = "fist"

\* an open right hand with the two tips exactly 0.05 apart, classified 'open_palm'
C17_Witness ==
    /\ Len(returned) >= 1
    /\ argIsRightHand
    /\ ExtendedDigits = {"thumb", "index", "middle", "ring", "pinky"}
    /\ TipDistance2 = PinchThreshold * PinchThreshold
    /\ returned[1] = "open_palm"

\* C18: every call of detectGesture returns 'pinch' when the two tips are less than 0.05 apart,
\* and otherwise 'thumbs_up' for the thumb alone, 'open_palm' for all five digits, 'fist' for
\* none, 'pointing' for the index alone, 'peace' for index and middle alone, and 'unknown' for
\* every other set of extended digits.
C18_FirstMatchingRule ==
    \A i \in 1..Len(returned) :
        returned[i] =
            IF TipDistance2 < PinchThreshold * PinchThreshold THEN "pinch"
            ELSE CASE ExtendedDigits = {"thumb"} -> "thumbs_up"
                   [] ExtendedDigits = {"thumb", "index", "middle", "ring", "pinky"} -> "open_palm"
                   [] ExtendedDigits = {} -> "fist"
                   [] ExtendedDigits = {"index"} -> "pointing"
                   [] ExtendedDigits = {"index", "middle"} -> "peace"
                   [] OTHER -> "unknown"

\* a left hand with thumb, index and middle extended and the tips far apart: no rule matches
C18_Witness ==
    /\ Len(returned) >= 1
    /\ ~argIsRightHand
    /\ ExtendedDigits = {"thumb", "index", "middle"}
    /\ TipDistance2 > PinchThreshold * PinchThreshold
    /\ returned[1] = "unknown"

-----------------------------------------------------------------------------
(* Properties of the pose classifier *)

\* the angle at landmark b of the argument body, between landmarks a and c
ArgAngle(a, b, c) == calculateAngle(argLandmarks[a], argLandmarks[b], argLandmarks[c])

\* the knee angle detectPose uses: 180 degrees for a knee that is not visible
ArgKneeAngle(hip, knee, ankle) ==
    IF isVisible(argLandmarks[knee]) THEN ArgAngle(hip, knee, ankle) ELSE 180000

\* the landmark's visibility field is present and greater than 0.5
ArgVisible(i) ==
    /\ argLandmarks[i].visibility # << >>
    /\ argLandmarks[i].visibility[1] > 500

ArgUpperBodyVisible ==
    \A i \in {LEFT_SHOULDER, RIGHT_SHOULDER, LEFT_HIP, RIGHT_HIP} : ArgVisible(i)

\* the conditions of the six rules of detectPose, on the argument body
ArmsUpRule ==
    /\ argLandmarks[LEFT_WRIST].y < argLandmarks[LEFT_SHOULDER].y - 100
    /\ argLandmarks[RIGHT_WRIST].y < argLandmarks[RIGHT_SHOULDER].y - 100
    /\ ArgAngle(LEFT_HIP, LEFT_SHOULDER, LEFT_ELBOW) > 150000
    /\ ArgAngle(RIGHT_HIP, RIGHT_SHOULDER, RIGHT_ELBOW) > 150000

TPoseRule ==
    /\ ArgAngle(LEFT_HIP, LEFT_SHOULDER, LEFT_ELBOW) > 70000
    /\ ArgAngle(LEFT_HIP, LEFT_SHOULDER, LEFT_ELBOW) < 110000
    /\ ArgAngle(RIGHT_HIP, RIGHT_SHOULDER, RIGHT_ELBOW) > 70000
    /\ ArgAngle(RIGHT_HIP, RIGHT_SHOULDER, RIGHT_ELBOW) < 110000
    /\ ArgAngle(LEFT_SHOULDER, LEFT_ELBOW, LEFT_WRIST) > 150000
    /\ ArgAngle(RIGHT_SHOULDER, RIGHT_ELBOW, RIGHT_WRIST) > 150000
    /\ Abs(argLandmarks[LEFT_WRIST].y - argLandmarks[LEFT_SHOULDER].y) < 150
    /\ Abs(argLandmarks[RIGHT_WRIST].y - argLandmarks[RIGHT_SHOULDER].y) < 150

HandsOnHipsRule ==
    /\ DistanceLess(argLandmarks[LEFT_WRIST], argLandmarks[LEFT_HIP], 150)
    /\ DistanceLess(argLandmarks[RIGHT_WRIST], argLandmarks[RIGHT_HIP], 150)
    /\ ArgAngle(LEFT_SHOULDER, LEFT_ELBOW, LEFT_WRIST) < 120000
    /\ ArgAngle(RIGHT_SHOULDER, RIGHT_ELBOW, RIGHT_WRIST) < 120000

SittingRule ==
    /\ ArgKneeAngle(LEFT_HIP, LEFT_KNEE, LEFT_ANKLE) < 120000
    /\ ArgKneeAngle(RIGHT_HIP, RIGHT_KNEE, RIGHT_ANKLE) < 120000

\* torsoTilt > 0.3
LeaningRule ==
    25 * TorsoOffset(argLandmarks) * TorsoOffset(argLandmarks) > 9 * ShoulderSpan2(argLandmarks)

\* both knee angles > 150 and torsoTilt < 0.2
StandingRule ==
    /\ ArgKneeAngle(LEFT_HIP, LEFT_KNEE, LEFT_ANKLE) > 150000
    /\ ArgKneeAngle(RIGHT_HIP, RIGHT_KNEE, RIGHT_ANKLE) > 150000
    /\ 25 * TorsoOffset(argLandmarks) * TorsoOffset(argLandmarks) < 4 * ShoulderSpan2(argLandmarks)

\* the rules in the order the claim gives them
PoseRules ==
    << [label |-> "arms_up",       holds |-> ArmsUpRule],
       [label |-> "t_pose",        holds |-> TPoseRule],
       [label |-> "hands_on_hips", holds |-> HandsOnHipsRule],
       [label |-> "sitting",       holds |-> SittingRule],
       [label |-> "leaning",       holds |-> LeaningRule],
       [label |-> "standing",      holds |-> StandingRule] >>

\* the label of the first rule whose condition holds, 'unknown' when none holds
FirstMatch ==
    LET matching == { k \in 1..Len(PoseRules) : PoseRules[k].holds }
    IN  IF matching = {} THEN "unknown"
        ELSE PoseRules[CHOOSE k \in matching : \A j \in matching : k <= j].label

\* C19: for a body of which a shoulder or a hip is not visible (visibility absent or not
\* greater than 0.5), every call of detectPose returns 'unknown', whatever the arms, the legs
\* and the lean are.
C19_UnknownWhenTorsoHidden ==
    \A i \in 1..Len(returned) : ~ArgUpperBodyVisible => returned[i] = "unknown"

\* a T-pose body whose right hip has visibility exactly 0.5, classified 'unknown'
C19_Witness ==
    /\ Len(returned) >= 1
    /\ TPoseRule
    /\ argLandmarks[RIGHT_HIP].visibility = <<500>>
    /\ \A i \in {LEFT_SHOULDER, RIGHT_SHOULDER, LEFT_HIP} : ArgVisible(i)
    /\ returned[1] = "unknown"

\* C20: for a body whose shoulders and hips are visible, every call of detectPose returns the
\* label of the first rule that holds in the order arms_up, t_pose, hands_on_hips, sitting,
\* leaning, standing, and 'unknown' when no rule holds.
C20_FirstMatchingPoseRule ==
    \A i \in 1..Len(returned) : ArgUpperBodyVisible => returned[i] = FirstMatch

\* a visible body with the sitting and the leaning condition both true, classified 'sitting'
C20_Witness ==
    /\ Len(returned) >= 1
    /\ ArgUpperBodyVisible
    /\ ~ArmsUpRule /\ ~TPoseRule /\ ~HandsOnHipsRule
    /\ SittingRule /\ LeaningRule
    /\ returned[1] = "sitting"

\* C21: a visible body whose shoulder angles both lie in [70, 110] degrees, one of them exactly
\* 70 or exactly 110, with both elbow angles over 150 degrees, both wrists within 0.15 of their
\* shoulder's height and the arms_up rule not matching, is classified 't_pose' by every call.
C21_TPoseClosedInterval ==
    \A i \in 1..Len(returned) :
        LET left  == ArgAngle(LEFT_HIP, LEFT_SHOULDER, LEFT_ELBOW)
            right == ArgAngle(RIGHT_HIP, RIGHT_SHOULDER, RIGHT_ELBOW)
        IN  ( /\ ArgUpperBodyVisible
              /\ left >= 70000 /\ left <= 110000
              /\ right >= 70000 /\ right <= 110000
              /\ {left, right} \cap {70000, 110000} # {}
              /\ ArgAngle(LEFT_SHOULDER, LEFT_ELBOW, LEFT_WRIST) > 150000
              /\ ArgAngle(RIGHT_SHOULDER, RIGHT_ELBOW, RIGHT_WRIST) > 150000
              /\ Abs(argLandmarks[LEFT_WRIST].y - argLandmarks[LEFT_SHOULDER].y) < 150
              /\ Abs(argLandmarks[RIGHT_WRIST].y - argLandmarks[RIGHT_SHOULDER].y) < 150
              /\ ~ArmsUpRule )
            => returned[i] = "t_pose"

\* C22 as stated: every body whose wrists are both more than 0.1 above their shoulders and whose
\* shoulder angles both exceed 150 degrees is classified 'arms_up' by every call.
C22_ArmsUp ==
    \A i \in 1..Len(returned) : ArmsUpRule => returned[i] = "arms_up"

\* C22: every body whose shoulders and hips are visible, whose wrists are both more than 0.1
\* above their shoulders and whose shoulder angles both exceed 150 degrees is classified
\* 'arms_up' by every call.
C22_ArmsUpWhenVisible ==
    \A i \in 1..Len(returned) : (ArgUpperBodyVisible /\ ArmsUpRule) => returned[i] = "arms_up"

\* the scenario body: wrists at y = 0.2, shoulders at y = 0.5, both shoulder angles 160
\* degrees, shoulders and hips visible, classified 'arms_up'
C22_Witness ==
    /\ Len(returned) >= 1
    /\ ArgUpperBodyVisible
    /\ argLandmarks[LEFT_WRIST].y = 200 /\ argLandmarks[RIGHT_WRIST].y = 200
    /\ argLandmarks[LEFT_SHOULDER].y = 500 /\ argLandmarks[RIGHT_SHOULDER].y = 500
    /\ ArgAngle(LEFT_HIP, LEFT_SHOULDER, LEFT_ELBOW) = 160000
    /\ ArgAngle(RIGHT_HIP, RIGHT_SHOULDER, RIGHT_ELBOW) = 160000
    /\ returned[1] = "arms_up"

\* the labels of the Pose type
PoseLabels == {"standing", "t_pose", "arms_up", "hands_on_hips", "sitting", "leaning", "unknown"}

\* C24: a call of detectPose on a set that does not have 33 landmarks returns no pose label
\* (the set is rejected as a precondition fault instead of being classified).
C24_WrongLengthRejected ==
    \A i \in 1..Len(returned) :
        Cardinality(DOMAIN argLandmarks) # 33 => returned[i] \notin PoseLabels

\* torsoTilt < 0.2 on the argument body
ArgTiltUnder20 ==
    25 * TorsoOffset(argLandmarks) * TorsoOffset(argLandmarks) < 4 * ShoulderSpan2(argLandmarks)

\* C36: a body with a knee that is not visible is never classified 'sitting'; a body with
\* both knees not visible is classified 'standing' whenever its torso tilt is below 0.2 and
\* detectPose returns at none of its earlier checks (shoulders and hips visible, arms_up,
\* t_pose and hands_on_hips not matching).
C36_HiddenKneeIsStraight ==
    \A i \in 1..Len(returned) :
        /\ (~ArgVisible(LEFT_KNEE) \/ ~ArgVisible(RIGHT_KNEE)) => returned[i] # "sitting"
        /\ (/\ ~ArgVisible(LEFT_KNEE) /\ ~ArgVisible(RIGHT_KNEE)
            /\ ArgTiltUnder20
            /\ ArgUpperBodyVisible
            /\ ~ArmsUpRule /\ ~TPoseRule /\ ~HandsOnHipsRule)
           => returned[i] = "standing"

\* a body whose knees are both bent to 90 degrees and both not visible, classified 'standing'
C36_Witness ==
    /\ Len(returned) >= 1
    /\ ~ArgVisible(LEFT_KNEE) /\ ~ArgVisible(RIGHT_KNEE)
    /\ ArgAngle(LEFT_HIP, LEFT_KNEE, LEFT_ANKLE) < 120000
    /\ ArgAngle(RIGHT_HIP, RIGHT_KNEE, RIGHT_ANKLE) < 120000
    /\ returned[1] = "standing"

-----------------------------------------------------------------------------
(* Properties of calculateAngle *)

\* C23: every call of calculateAngle returns an angle from 0 to 180 degrees, and the calls
\* calculateAngle(a, b, c) and calculateAngle(c, b, a) return the same angle, also when a or c
\* coincides with the vertex b.
C23_AngleSymmetricInRange ==
    /\ \A i \in 1..Len(returned) : returned[i].angle >= 0 /\ returned[i].angle <= 180000
    /\ \A i, j \in 1..Len(returned) : returned[i].angle = returned[j].angle

\* a coincides with the vertex while c does not; called in both argument orders
C23_Witness ==
    /\ Len(returned) >= 2
    /\ argLandmarks[1] = argLandmarks[2]
    /\ argLandmarks[3] # argLandmarks[2]
    /\ ~returned[1].swapped /\ returned[2].swapped
    /\ returned[1].angle > 0

====
